---------------------------- MODULE Spec2Model ----------------------------
(***************************************************************************)
(* AICrawler: the Store (SQLite tables behind internal/database), the      *)
(* period resolver, the triage parser, the clusterer, the composer and the *)
(* six-stage pipeline, as state machines.                                  *)
(*                                                                         *)
(* Representation of strings.  TLC strings are atomic, so a string that    *)
(* the code takes apart is modelled by its parts: a title is the sequence  *)
(* of its whitespace-separated lower-cased words (strings.Fields of        *)
(* strings.ToLower), a label is the sequence of words joined by " ", a     *)
(* date "YYYY-MM-DD" is the tuple <<y, m, d>>, and a period id is the      *)
(* sequence of the dates that ".." separates (one for a single day, two    *)
(* for a range).                                                           *)
(***************************************************************************)
EXTENDS Integers, Sequences, FiniteSets, TLC

VARIABLES
    db,     \* the committed contents of the database file
    tx,     \* the open transaction of the single writer, or the idle marker
    last,   \* the last call made through an API: its arguments and result
    call,   \* the last call of a pure function: its input and its output
    env,    \* what the process meets outside: feeds, web, providers, configuration
    run,    \* the run command in progress: its stage and its step results
    hist    \* what the completed runs left in the store, and the viewer's actions

vars == <<db, tx, last, call, env, run, hist>>

pipeVars == <<env, run, hist>>

-----------------------------------------------------------------------------
(* Bounds of the model *)

MaxStorylineRows == 2
MaxReports == 2
MaxExplicitDaysBack == 3
MaxRuns == 2
MaxFeedback == 1
MantissaBits == 8

(* SQL NULL *)
Null == "NULL"

URLs == {"https://a", "https://b"}
TitleTexts == {"First", "Second"}
ContentTexts == {Null, "", "body"}
StorePeriods == {<<<<2026, 2, 6>>>>, <<<<2026, 2, 7>>>>}

-----------------------------------------------------------------------------
(* The schema: one field per table, plus the AUTOINCREMENT counters kept in *)
(* sqlite_sequence for the tables whose rows can be deleted.                *)

EmptyDB ==
    [ articles            |-> <<>>,
      article_triage      |-> {},
      storylines          |-> {},
      storyline_articles  |-> {},
      storyline_narratives|-> {},
      storyline_feedback  |-> {},
      briefings           |-> {},
      run_reports         |-> {},
      seq                 |-> [storylines |-> 0, storyline_narratives |-> 0] ]

ArticleIDs(d) == 1..Len(d.articles)

HasURL(rows, url) == \E i \in 1..Len(rows) : rows[i].url = url

(* articles.go InsertArticle with INSERT OR REPLACE in place of INSERT: the *)
(* row of the URL is overwritten.                                           *)
InsertArticleReplacing(d, url, title, content, periodID) ==
    LET row == [url |-> url, title |-> title, content |-> content,
                content_fetched |-> FALSE, period_id |-> periodID]
    IN  IF HasURL(d.articles, url)
        THEN LET i == CHOOSE k \in 1..Len(d.articles) : d.articles[k].url = url
             IN  [db |-> [d EXCEPT !.articles[i] = row], id |-> i]
        ELSE [db |-> [d EXCEPT !.articles = Append(@, row)], id |-> Len(d.articles) + 1]

(* InsertArticle: INSERT INTO articles; url is UNIQUE, so the statement     *)
(* fails on a stored URL and the function returns (0, nil).  The id of a    *)
(* new row is its position: rows of articles are never deleted.            *)
InsertArticle(d, url, title, content, periodID) ==
    IF HasURL(d.articles, url)
    THEN [db |-> d, id |-> 0]
    ELSE [db |-> [d EXCEPT !.articles = Append(@,
                     [url |-> url, title |-> title, content |-> content,
                      content_fetched |-> FALSE, period_id |-> periodID])],
          id |-> Len(d.articles) + 1]

(* UPDATE articles SET content = ?, content_fetched = 1 WHERE id = ? *)
UpdateArticleContent(d, articleID, content) ==
    IF articleID \in ArticleIDs(d)
    THEN [d EXCEPT !.articles[articleID].content = content,
                   !.articles[articleID].content_fetched = TRUE]
    ELSE d

(* A MarkArticleFetchAttempted whose UPDATE changes no row *)
FetchAttemptForgotten(d, articleID) == d

(* UPDATE articles SET content_fetched = 1 WHERE id = ? *)
MarkArticleFetchAttempted(d, articleID) ==
    IF articleID \in ArticleIDs(d)
    THEN [d EXCEPT !.articles[articleID].content_fetched = TRUE]
    ELSE d


-----------------------------------------------------------------------------
(* Storylines, junction rows, narratives and storyline feedback.            *)

(* PRAGMA foreign_keys=ON, set by Open on the connection every call uses *)
ForeignKeysOn == TRUE

StorylineIDs(d) == {s.id : s \in d.storylines}

StorylinesOfPeriod(d, periodID) == {s \in d.storylines : s.period_id = periodID}

JunctionRows(d, storylineID) == {j \in d.storyline_articles : j.storyline_id = storylineID}

(* INSERT INTO storylines (period_id, label, article_count) VALUES (?, ?, len(articleIDs)) *)
(* The id comes from AUTOINCREMENT: one more than the largest id ever given.  *)
ExecInsertStorylineRow(w, periodID, label, articleIDs) ==
    LET sid == w.seq.storylines + 1
    IN  [w EXCEPT !.storylines = @ \cup {[id |-> sid, period_id |-> periodID,
                                         label |-> label,
                                         article_count |-> Len(articleIDs)]},
                  !.seq.storylines = sid]

(* INSERT INTO storyline_articles (storyline_id, article_id): fails on the    *)
(* primary key (storyline_id, article_id) and on the foreign keys.            *)
ExecInsertJunction(w, storylineID, articleID) ==
    LET row == [storyline_id |-> storylineID, article_id |-> articleID]
    IN  IF \/ row \in w.storyline_articles
           \/ (ForeignKeysOn /\ articleID \notin ArticleIDs(w))
           \/ (ForeignKeysOn /\ storylineID \notin StorylineIDs(w))
        THEN [ok |-> FALSE, db |-> w]
        ELSE [ok |-> TRUE, db |-> [w EXCEPT !.storyline_articles = @ \cup {row}]]

(* DELETE FROM storyline_articles WHERE storyline_id = ? *)
ExecDeleteJunctions(w, storylineID) ==
    [w EXCEPT !.storyline_articles = {j \in @ : j.storyline_id # storylineID}]

(* DELETE FROM storyline_narratives WHERE storyline_id = ? *)
ExecDeleteNarratives(w, storylineID) ==
    [w EXCEPT !.storyline_narratives = {n \in @ : n.storyline_id # storylineID}]

(* DELETE FROM storylines WHERE period_id = ?: fails when a row of a child    *)
(* table (storyline_articles, storyline_narratives, storyline_feedback) still *)
(* references a storyline of the period.                                      *)
ExecDeleteStorylines(w, periodID) ==
    LET gone == {s.id : s \in StorylinesOfPeriod(w, periodID)}
        referenced ==
            \/ \E j \in w.storyline_articles : j.storyline_id \in gone
            \/ \E n \in w.storyline_narratives : n.storyline_id \in gone
            \/ \E f \in w.storyline_feedback : f.storyline_id \in gone
    IN  IF ForeignKeysOn /\ referenced
        THEN [ok |-> FALSE, db |-> w]
        ELSE [ok |-> TRUE,
              db |-> [w EXCEPT !.storylines = {s \in @ : s.period_id # periodID}]]

(* What the database file holds once a transaction has ended in an error:    *)
(* every statement of the transaction made permanent (no transaction).       *)
RolledBackKeepingWork(committed, work) == work

(* defer tx.Rollback(): the database file holds what it held at Begin *)
RolledBack(committed, work) == committed

RECURSIVE InsertJunctions(_, _, _, _)
InsertJunctions(w, storylineID, articleIDs, i) ==
    IF i > Len(articleIDs)
    THEN [ok |-> TRUE, db |-> w]
    ELSE LET r == ExecInsertJunction(w, storylineID, articleIDs[i])
         IN  IF r.ok
             THEN InsertJunctions(r.db, storylineID, articleIDs, i + 1)
             ELSE r

(* InsertStoryline as one call: the row, then one junction row per article   *)
(* id, in one transaction.                                                   *)
InsertStoryline(d, periodID, label, articleIDs) ==
    LET w == ExecInsertStorylineRow(d, periodID, label, articleIDs)
        r == InsertJunctions(w, w.seq.storylines, articleIDs, 1)
    IN  IF r.ok
        THEN [db |-> r.db, id |-> w.seq.storylines, err |-> FALSE]
        ELSE [db |-> RolledBack(d, r.db), id |-> 0, err |-> TRUE]

RECURSIVE DeleteChildren(_, _)
DeleteChildren(w, ids) ==
    IF ids = {}
    THEN w
    ELSE LET id == CHOOSE x \in ids : \A y \in ids : x <= y
         IN  DeleteChildren(ExecDeleteNarratives(ExecDeleteJunctions(w, id), id),
                            ids \ {id})

(* a ClearStorylinesForPeriod that deletes nothing *)
ClearNothing(d, periodID) == [db |-> d, err |-> FALSE]

(* ClearStorylinesForPeriod as one call *)
ClearStorylinesForPeriod(d, periodID) ==
    LET ids == {s.id : s \in StorylinesOfPeriod(d, periodID)}
        r == ExecDeleteStorylines(DeleteChildren(d, ids), periodID)
    IN  IF r.ok
        THEN [db |-> r.db, err |-> FALSE]
        ELSE [db |-> RolledBack(d, r.db), err |-> TRUE]

(* INSERT INTO storyline_narratives (...): no UNIQUE on storyline_id *)
InsertStorylineNarrative(d, storylineID, periodID, title, refs) ==
    IF ForeignKeysOn /\ storylineID \notin StorylineIDs(d)
    THEN [db |-> d, err |-> TRUE]
    ELSE LET nid == d.seq.storyline_narratives + 1
         IN  [db |-> [d EXCEPT !.storyline_narratives = @ \cup
                          {[id |-> nid, storyline_id |-> storylineID,
                            period_id |-> periodID, title |-> title,
                            source_references |-> refs]},
                        !.seq.storyline_narratives = nid],
              err |-> FALSE]

Ratings == {"useful", "not_useful"}

(* INSERT OR REPLACE INTO storyline_feedback: storyline_id is the primary    *)
(* key and references storylines(id); rating has a CHECK constraint.         *)
UpsertStorylineFeedback(d, storylineID, periodID, rating) ==
    IF \/ rating \notin Ratings
       \/ (ForeignKeysOn /\ storylineID \notin StorylineIDs(d))
    THEN d
    ELSE [d EXCEPT !.storyline_feedback =
              {f \in @ : f.storyline_id # storylineID} \cup
              {[storyline_id |-> storylineID, period_id |-> periodID, rating |-> rating]}]

(* DELETE FROM storyline_feedback WHERE storyline_id = ? *)
DeleteStorylineFeedback(d, storylineID) ==
    [d EXCEPT !.storyline_feedback = {f \in @ : f.storyline_id # storylineID}]

(* server handleStorylineFeedback: toggle off when the same rating is stored, *)
(* upsert otherwise                                                           *)
HandleStorylineFeedback(d, storylineID, periodID, rating) ==
    IF \E f \in d.storyline_feedback : f.storyline_id = storylineID /\ f.rating = rating
    THEN DeleteStorylineFeedback(d, storylineID)
    ELSE UpsertStorylineFeedback(d, storylineID, periodID, rating)

-----------------------------------------------------------------------------
(* Specification SpecArticles: the articles table under arbitrary calls of  *)
(* InsertArticle, UpdateArticleContent and MarkArticleFetchAttempted.       *)

NoCall == [op |-> "none"]

(* No run command has been started in this process *)
NoEnv == [feed |-> <<>>]
NoRun == [pc |-> "idle", steps |-> <<>>]
NoHist == [runs |-> <<>>, feedback |-> 0]

InitArticles ==
    /\ db = EmptyDB
    /\ env = NoEnv
    /\ run = NoRun
    /\ hist = NoHist
    /\ tx = [op |-> "idle"]
    /\ last = NoCall
    /\ call = NoCall

CallInsertArticle(url, title, content, periodID) ==
    LET r == InsertArticle(db, url, title, content, periodID)
    IN  /\ db' = r.db
        /\ last' = [op |-> "InsertArticle", url |-> url, title |-> title,
                    id |-> r.id, pre |-> db.articles]
        /\ UNCHANGED <<tx, call, pipeVars>>

CallUpdateArticleContent(articleID, content) ==
    /\ articleID \in ArticleIDs(db)
    /\ db' = UpdateArticleContent(db, articleID, content)
    /\ last' = [op |-> "UpdateArticleContent", id |-> articleID, pre |-> db.articles]
    /\ UNCHANGED <<tx, call, pipeVars>>

CallMarkArticleFetchAttempted(articleID) ==
    /\ articleID \in ArticleIDs(db)
    /\ db' = MarkArticleFetchAttempted(db, articleID)
    /\ last' = [op |-> "MarkArticleFetchAttempted", id |-> articleID, pre |-> db.articles]
    /\ UNCHANGED <<tx, call, pipeVars>>

NextArticles ==
    \/ \E url \in URLs, title \in TitleTexts, content \in ContentTexts, p \in StorePeriods :
           CallInsertArticle(url, title, content, p)
    \/ \E id \in ArticleIDs(db) : CallUpdateArticleContent(id, "fetched text")
    \/ \E id \in ArticleIDs(db) : CallMarkArticleFetchAttempted(id)

SpecArticles == InitArticles /\ [][NextArticles]_vars

(* C1: the store holds at most one article row per URL, and an InsertArticle *)
(* whose URL is already stored returns id 0, adds no row and leaves every    *)
(* stored row (title, content, content_fetched, period_id) as it was, while  *)
(* an InsertArticle of a new URL returns the id of the one row it appended.  *)
C1_DuplicateInsertIsNoOp ==
    /\ \A i, j \in ArticleIDs(db) : db.articles[i].url = db.articles[j].url => i = j
    /\ (last.op = "InsertArticle" /\ HasURL(last.pre, last.url))
           => (last.id = 0 /\ db.articles = last.pre)
    /\ (last.op = "InsertArticle" /\ ~HasURL(last.pre, last.url))
           => /\ last.id = Len(last.pre) + 1
              /\ Len(db.articles) = last.id
              /\ SubSeq(db.articles, 1, Len(last.pre)) = last.pre
              /\ db.articles[last.id].url = last.url
              /\ db.articles[last.id].title = last.title

(* A duplicate insert with another title arrives after the stored row got    *)
(* its fetched content.                                                      *)
C1_Witness ==
    /\ last.op = "InsertArticle"
    /\ last.id = 0
    /\ \E i \in ArticleIDs(db) :
          /\ db.articles[i].url = last.url
          /\ db.articles[i].title # last.title
          /\ db.articles[i].content_fetched
          /\ db.articles[i].content = "fetched text"

-----------------------------------------------------------------------------
(* Specification SpecStorylines: InsertStoryline and                         *)
(* ClearStorylinesForPeriod statement by statement.  tx.work is what the     *)
(* writer's connection sees inside its transaction; db is what is committed, *)
(* which is all another connection (the viewer) can read.  A second writer   *)
(* cannot write while the transaction is open.                               *)

Idle == [op |-> "idle"]

ArticleIDLists == {<<>>, <<1>>, <<1, 2>>, <<2, 2>>}

InitStorylines ==
    /\ db = EmptyDB
    /\ env = NoEnv
    /\ run = NoRun
    /\ hist = NoHist
    /\ tx = Idle
    /\ last = NoCall
    /\ call = NoCall

AddArticle(url) ==
    /\ tx = Idle
    /\ url = IF db.articles = <<>> THEN "https://a" ELSE "https://b"
    /\ db' = InsertArticle(db, url, "First", Null, <<<<2026, 2, 6>>>>).db
    /\ last' = [op |-> "InsertArticle"]
    /\ UNCHANGED <<tx, call, pipeVars>>

BeginInsertStoryline(periodID, label, articleIDs) ==
    /\ tx = Idle
    /\ db.seq.storylines < MaxStorylineRows
    /\ tx' = [op |-> "InsertStoryline", work |-> db, period_id |-> periodID,
              label |-> label, ids |-> articleIDs, i |-> 0]
    /\ UNCHANGED <<db, last, call, pipeVars>>

InsertStorylineRowStep ==
    /\ tx.op = "InsertStoryline"
    /\ tx.i = 0
    /\ tx' = [tx EXCEPT !.work = ExecInsertStorylineRow(@, tx.period_id, tx.label, tx.ids),
                        !.i = 1]
    /\ UNCHANGED <<db, last, call, pipeVars>>

InsertStorylineJunctionStep ==
    /\ tx.op = "InsertStoryline"
    /\ tx.i \in 1..Len(tx.ids)
    /\ LET r == ExecInsertJunction(tx.work, tx.work.seq.storylines, tx.ids[tx.i])
       IN  IF r.ok
           THEN /\ tx' = [tx EXCEPT !.work = r.db, !.i = @ + 1]
                /\ UNCHANGED <<db, last>>
           ELSE /\ tx' = Idle
                /\ db' = RolledBack(db, r.db)
                /\ last' = [op |-> "InsertStoryline", err |-> TRUE, done |-> tx.i - 1]
    /\ UNCHANGED <<call, pipeVars>>

InsertStorylineCommit ==
    /\ tx.op = "InsertStoryline"
    /\ tx.i > Len(tx.ids)
    /\ db' = tx.work
    /\ tx' = Idle
    /\ last' = [op |-> "InsertStoryline", err |-> FALSE, done |-> Len(tx.ids)]
    /\ UNCHANGED <<call, pipeVars>>

BeginClearStorylines(periodID) ==
    /\ tx = Idle
    /\ tx' = [op |-> "ClearStorylinesForPeriod", work |-> db, period_id |-> periodID,
              ids |-> {s.id : s \in StorylinesOfPeriod(db, periodID)}]
    /\ UNCHANGED <<db, last, call, pipeVars>>

ClearChildrenStep ==
    /\ tx.op = "ClearStorylinesForPeriod"
    /\ tx.ids # {}
    /\ LET id == CHOOSE x \in tx.ids : \A y \in tx.ids : x <= y
       IN  tx' = [tx EXCEPT !.work = ExecDeleteNarratives(ExecDeleteJunctions(@, id), id),
                            !.ids = @ \ {id}]
    /\ UNCHANGED <<db, last, call, pipeVars>>

ClearStorylinesStep ==
    /\ tx.op = "ClearStorylinesForPeriod"
    /\ tx.ids = {}
    /\ LET r == ExecDeleteStorylines(tx.work, tx.period_id)
       IN  /\ db' = IF r.ok THEN r.db ELSE RolledBack(db, r.db)
           /\ last' = [op |-> "ClearStorylinesForPeriod", err |-> ~r.ok,
                       period_id |-> tx.period_id]
    /\ tx' = Idle
    /\ UNCHANGED <<call, pipeVars>>

AddNarrative(storylineID) ==
    /\ tx = Idle
    /\ storylineID \in StorylineIDs(db)
    /\ ~\E n \in db.storyline_narratives : n.storyline_id = storylineID
    /\ LET s == CHOOSE x \in db.storylines : x.id = storylineID
       IN  db' = InsertStorylineNarrative(db, storylineID, s.period_id, "T", <<>>).db
    /\ last' = [op |-> "InsertStorylineNarrative"]
    /\ UNCHANGED <<tx, call, pipeVars>>

ViewerFeedback(storylineID, rating) ==
    /\ tx = Idle
    /\ storylineID \in StorylineIDs(db)
    /\ LET s == CHOOSE x \in db.storylines : x.id = storylineID
       IN  db' = HandleStorylineFeedback(db, storylineID, s.period_id, rating)
    /\ last' = [op |-> "handleStorylineFeedback"]
    /\ UNCHANGED <<tx, call, pipeVars>>

NextStorylines ==
    \/ \E url \in URLs : AddArticle(url)
    \/ \E p \in StorePeriods, ids \in ArticleIDLists : BeginInsertStoryline(p, "AI Testing", ids)
    \/ InsertStorylineRowStep
    \/ InsertStorylineJunctionStep
    \/ InsertStorylineCommit
    \/ \E p \in StorePeriods : BeginClearStorylines(p)
    \/ ClearChildrenStep
    \/ ClearStorylinesStep
    \/ \E sid \in 1..MaxStorylineRows : AddNarrative(sid)
    \/ \E sid \in 1..MaxStorylineRows : ViewerFeedback(sid, "useful")

SpecStorylines == InitStorylines /\ [][NextStorylines]_vars

(* C7: in every committed state, also while InsertStoryline or               *)
(* ClearStorylinesForPeriod is part-way through its statements and after one *)
(* of them failed, each storyline's article_count is the number of           *)
(* storyline_articles rows that reference it, and every junction row         *)
(* references a stored storyline.                                            *)
C7_ArticleCountIsJunctionCardinality ==
    /\ \A s \in db.storylines : s.article_count = Cardinality(JunctionRows(db, s.id))
    /\ \A j \in db.storyline_articles : j.storyline_id \in StorylineIDs(db)

(* InsertStoryline failed after it had inserted the row and a junction row,  *)
(* while an earlier storyline with two articles is stored.                   *)
C7_Witness ==
    /\ last.op = "InsertStoryline"
    /\ last.err
    /\ last.done >= 1
    /\ \E s \in db.storylines : s.article_count = 2

(* A reader looks at the store while ClearStorylinesForPeriod has deleted    *)
(* the junction rows of a storyline but has not committed.                   *)
C7_WitnessMidClear ==
    /\ tx.op = "ClearStorylinesForPeriod"
    /\ \E s \in db.storylines :
          /\ s.article_count >= 1
          /\ JunctionRows(tx.work, s.id) = {}

-----------------------------------------------------------------------------
(* Dates and period ids.  time.Parse("2006-01-02", s) of a well-formed      *)
(* date is the UTC midnight of that day, held here as the number of days     *)
(* since 1970-01-01; AddDate(0, 0, n) adds n to it and Format turns the day  *)
(* number back into <<y, m, d>>.                                             *)

ParseDate(date) ==
    LET y   == IF date[2] <= 2 THEN date[1] - 1 ELSE date[1]
        era == y \div 400
        yoe == y - era * 400
        mp  == (date[2] + 9) % 12
        doy == (153 * mp + 2) \div 5 + date[3] - 1
        doe == yoe * 365 + yoe \div 4 - yoe \div 100 + doy
    IN  era * 146097 + doe - 719468

FormatDate(day) ==
    LET z   == day + 719468
        era == z \div 146097
        doe == z - era * 146097
        yoe == (doe - doe \div 1460 + doe \div 36524 - doe \div 146096) \div 365
        doy == doe - (365 * yoe + yoe \div 4 - yoe \div 100)
        mp  == (5 * doy + 2) \div 153
        d   == doy - (153 * mp + 2) \div 5 + 1
        m   == IF mp < 10 THEN mp + 3 ELSE mp - 9
        y   == yoe + era * 400
    IN  <<IF m <= 2 THEN y + 1 ELSE y, m, d>>

(* todayDate.AddDate(0, 0, n).Format("2006-01-02") *)
AddDays(date, n) == FormatDate(ParseDate(date) + n)

(* start == end gives the date alone, otherwise start + ".." + end *)
MakePeriodID(start, end) == IF start = end THEN <<start>> ELSE <<start, end>>

(* The empty string in the place of a date *)
NoDate == <<>>

(* the part after "..", or the whole id when it has no ".." *)
PeriodEndDate(periodID) == periodID[Len(periodID)]

(* Byte-wise order of two dates as zero-padded text *)
DateTextLess(a, b) ==
    \/ a[1] < b[1]
    \/ (a[1] = b[1] /\ a[2] < b[2])
    \/ (a[1] = b[1] /\ a[2] = b[2] /\ a[3] < b[3])

(* Byte-wise (BINARY collation) order of two period ids as text: the start   *)
(* dates decide; with equal starts the single day, a proper prefix, sorts    *)
(* before the range, and two ranges are ordered by their end dates.          *)
PeriodTextLess(p, q) ==
    \/ DateTextLess(p[1], q[1])
    \/ /\ p[1] = q[1]
       /\ \/ (Len(p) = 1 /\ Len(q) = 2)
          \/ (Len(p) = 2 /\ Len(q) = 2 /\ DateTextLess(p[2], q[2]))

(* INSERT OR REPLACE INTO run_reports (period_id, article_count, storyline_count) *)
InsertReport(d, periodID, articleCount, storylineCount) ==
    [d EXCEPT !.run_reports = {r \in @ : r.period_id # periodID} \cup
                  {[period_id |-> periodID, article_count |-> articleCount,
                    storyline_count |-> storylineCount]}]

(* SELECT period_id FROM run_reports ORDER BY period_id DESC LIMIT 1, then   *)
(* the end date of that id; the empty string when there is no report         *)
GetLastRunDate(d) ==
    IF d.run_reports = {}
    THEN NoDate
    ELSE LET top == CHOOSE r \in d.run_reports :
                        \A o \in d.run_reports : ~PeriodTextLess(r.period_id, o.period_id)
         IN  PeriodEndDate(top.period_id)

(* strings.TrimSpace(strings.ToLower(answer)) of the line read from stdin *)
NormalizeAnswer(answer) ==
    CASE answer = "Y\n"    -> "y"
      [] answer = " yes\n" -> "yes"
      [] answer = "n\n"    -> "n"
      [] answer = "\n"     -> ""
      [] OTHER             -> answer

(* if missedDays > 5, with >= in place of >: the prompt already at five days *)
CatchUpNeedsConsentFromFive(missedDays) == missedDays >= 5

(* if missedDays > 5 { ... prompt ... } *)
CatchUpNeedsConsent(missedDays) == missedDays > 5

(* resolvePeriod.  asked tells whether the prompt was printed and a line     *)
(* read from stdin; err is "" for a nil error.                               *)
resolvePeriod(d, today, explicitDaysBack, answer) ==
    LET lastRun    == GetLastRunDate(d)
        missedDays == ParseDate(today) - ParseDate(lastRun)
        Out(periodID, daysBack, err, asked) ==
            [periodID |-> periodID, effectiveDaysBack |-> daysBack,
             err |-> err, asked |-> asked]
    IN  IF explicitDaysBack > 0
        THEN IF explicitDaysBack = 1
             THEN Out(<<today>>, explicitDaysBack, "", FALSE)
             ELSE Out(MakePeriodID(AddDays(today, -(explicitDaysBack - 1)), today),
                      explicitDaysBack, "", FALSE)
        ELSE IF lastRun = NoDate THEN Out(<<today>>, 1, "", FALSE)
        ELSE IF missedDays <= 0 THEN Out(<<today>>, 1, "", FALSE)
        ELSE IF missedDays = 1 THEN Out(<<today>>, 1, "", FALSE)
        ELSE LET periodID == MakePeriodID(AddDays(lastRun, 1), today)
             IN  IF CatchUpNeedsConsent(missedDays)
                 THEN IF NormalizeAnswer(answer) \notin {"y", "yes"}
                      THEN Out(<<>>, 0, "aborted", TRUE)
                      ELSE Out(periodID, missedDays, "", TRUE)
                 ELSE Out(periodID, missedDays, "", FALSE)

-----------------------------------------------------------------------------
(* Specification SpecResolve: run reports are written to the store and the  *)
(* run command resolves its period against them.                             *)

(* The days 2026-01-20 .. 2026-02-10 in order *)
Calendar == [i \in 1..22 |-> IF i <= 12 THEN <<2026, 1, 19 + i>> ELSE <<2026, 2, i - 12>>]

CalendarPos(date) == CHOOSE i \in 1..22 : Calendar[i] = date

(* GetToday() on the days 2026-01-28 .. 2026-02-05 *)
Todays == {Calendar[i] : i \in 9..17}

ReportPeriods ==
    {<<<<2026, 1, 28>>>>, <<<<2026, 1, 31>>>>, <<<<2026, 2, 1>>>>, <<<<2026, 2, 3>>>>,
     <<<<2026, 2, 5>>>>,
     <<<<2026, 1, 28>>, <<2026, 1, 30>>>>, <<<<2026, 1, 30>>, <<2026, 2, 1>>>>}

ExplicitDaysBackValues == (-1)..MaxExplicitDaysBack

StdinLines == {"Y\n", " yes\n", "n\n", "\n"}

InitResolve ==
    /\ db = EmptyDB
    /\ env = NoEnv
    /\ run = NoRun
    /\ hist = NoHist
    /\ tx = Idle
    /\ last = NoCall
    /\ call = NoCall

WriteReport(periodID) ==
    /\ Cardinality(db.run_reports) < MaxReports
    /\ db' = InsertReport(db, periodID, 0, 0)
    /\ last' = [op |-> "InsertReport", period_id |-> periodID]
    /\ UNCHANGED <<tx, call, pipeVars>>

(* runCmd.RunE up to the pipeline: the error of resolvePeriod is returned as *)
(* it is, and the pipeline's step errors are only printed                    *)
RunE(rp) == rp.err

(* main: os.Exit(1) when rootCmd.Execute returns an error *)
ExitCode(err) == IF err # "" THEN 1 ELSE 0

CallResolvePeriod(today, explicitDaysBack, answer) ==
    /\ call' = [op |-> "resolvePeriod", today |-> today,
                explicitDaysBack |-> explicitDaysBack,
                lastRun |-> GetLastRunDate(db),
                ends |-> {PeriodEndDate(r.period_id) : r \in db.run_reports},
                denied |-> /\ resolvePeriod(db, today, explicitDaysBack, answer).asked
                           /\ NormalizeAnswer(answer) \notin {"y", "yes"},
                out |-> resolvePeriod(db, today, explicitDaysBack, answer),
                exit |-> ExitCode(RunE(resolvePeriod(db, today, explicitDaysBack, answer)))]
    /\ UNCHANGED <<db, tx, last, pipeVars>>

NextResolve ==
    \/ \E p \in ReportPeriods : WriteReport(p)
    \/ \E t \in Todays, e \in ExplicitDaysBackValues, a \in StdinLines :
           CallResolvePeriod(t, e, a)

SpecResolve == InitResolve /\ [][NextResolve]_vars

(* C2: resolvePeriod follows the six ordered rules.  With T today, L the     *)
(* last run's end date, E the explicit value and K the number of days from L *)
(* to T counted on the calendar: E = 1 gives (T, 1); E > 1 gives             *)
(* ([T-E+1 .. T], E); without an explicit value, no prior run, K <= 0 or     *)
(* K = 1 give (T, 1) and K > 1 gives ([L+1 .. T], K); the operator is asked  *)
(* exactly when no explicit value is given, a prior run exists and K > 5.    *)
C2_ResolverFollowsSixRules ==
    call.op = "resolvePeriod" =>
        LET T == call.today
            L == call.lastRun
            E == call.explicitDaysBack
            o == call.out
            K == CalendarPos(T) - CalendarPos(L)
            Range(from) == IF from = CalendarPos(T) THEN <<T>> ELSE <<Calendar[from], T>>
            Gives(periodID, daysBack) ==
                o.err = "" => (o.periodID = periodID /\ o.effectiveDaysBack = daysBack)
        IN  /\ E = 1 => Gives(<<T>>, 1)
            /\ E > 1 => Gives(Range(CalendarPos(T) - E + 1), E)
            /\ (E <= 0 /\ L = NoDate) => Gives(<<T>>, 1)
            /\ (E <= 0 /\ L # NoDate /\ K <= 1) => Gives(<<T>>, 1)
            /\ (E <= 0 /\ L # NoDate /\ K > 1) => Gives(Range(CalendarPos(L) + 1), K)
            /\ o.asked <=> (E <= 0 /\ L # NoDate /\ K > 5)
            /\ o.err # "" => o.asked

(* A catch-up over the end of January: the last run ended 2026-01-28, today  *)
(* is 2026-02-03, six days later, and the operator agreed.                   *)
C2_Witness ==
    /\ call.op = "resolvePeriod"
    /\ call.explicitDaysBack = 0
    /\ call.lastRun = <<2026, 1, 28>>
    /\ call.today = <<2026, 2, 3>>
    /\ call.out = [periodID |-> <<<<2026, 1, 29>>, <<2026, 2, 3>>>>,
                   effectiveDaysBack |-> 6, err |-> "", asked |-> TRUE]

(* The catch-up of three days of the scenario: last run 2026-02-01, today    *)
(* 2026-02-04, resolved without a prompt.                                    *)
C2_WitnessThreeDays ==
    /\ call.op = "resolvePeriod"
    /\ call.lastRun = <<2026, 2, 1>>
    /\ call.today = <<2026, 2, 4>>
    /\ call.out = [periodID |-> <<<<2026, 2, 2>>, <<2026, 2, 4>>>>,
                   effectiveDaysBack |-> 3, err |-> "", asked |-> FALSE]

-----------------------------------------------------------------------------
(* Triage.  A Generator response is [kind, obj]: kind "object" is text that  *)
(* holds one JSON object (obj, a function from its keys to JSON values),     *)
(* bare or inside a markdown fence; the other kinds are the empty text,      *)
(* prose, and valid JSON that is no object.  A JSON value is a record tagged *)
(* by t; a number carries its value in tenths (n10), so that float64 to int  *)
(* is a conversion.                                                          *)

JStr(s) == [t |-> "string", s |-> s]
JNum(n10) == [t |-> "number", n10 |-> n10]
JArr(a) == [t |-> "array", a |-> a]

(* strings.ToLower on the mixed-case texts of the model *)
ToLower(s) ==
    CASE s = "SKIP"     -> "skip"
      [] s = "Skip"     -> "skip"
      [] s = "Relevant" -> "relevant"
      [] s = "Briefly"  -> "briefly"
      [] s = "Noted:"   -> "noted:"
      [] s = "The"      -> "the"
      [] s = "AI"       -> "ai"
      [] OTHER          -> s

(* llm.ParseJSONResponse: nil for empty text and for text json.Unmarshal     *)
(* cannot put into a map[string]any; the fence is stripped before.           *)
ParseJSONResponse(text) ==
    IF text.kind \in {"object", "fenced object"}
    THEN [nil |-> FALSE, obj |-> text.obj]
    ELSE [nil |-> TRUE, obj |-> text.obj]

getString(m, key, fallback) ==
    IF key \in DOMAIN m /\ m[key].t = "string" THEN m[key].s ELSE fallback

(* int(n) of a float64: truncation toward zero *)
getInt(m, key, fallback) ==
    IF key \in DOMAIN m /\ m[key].t = "number"
    THEN IF m[key].n10 >= 0 THEN m[key].n10 \div 10 ELSE -((-m[key].n10) \div 10)
    ELSE fallback

(* the strings of key_points, in order, cut to the first five *)
KeyPointsOf(m) ==
    IF "key_points" \in DOMAIN m /\ m["key_points"].t = "array"
    THEN LET strs == SelectSeq(m["key_points"].a, LAMBDA v : v.t = "string")
             kp   == [i \in 1..Len(strs) |-> strs[i].s]
         IN  IF Len(kp) > 5 THEN SubSeq(kp, 1, 5) ELSE kp
    ELSE <<>>

(* lines 178-185 without the reset of a skipped article's score to 0 *)
ClampScoreKeepingSkipScore(verdict, score) ==
    IF score < 1 THEN 1 ELSE IF score > 5 THEN 5 ELSE score

(* skip gives 0; otherwise the score is clamped into 1..5 *)
ClampScore(verdict, score) ==
    IF verdict = "skip" THEN 0
    ELSE IF score < 1 THEN 1
    ELSE IF score > 5 THEN 5
    ELSE score

(* triageArticle after a Generate that returned responseText without error.  *)
(* A nil keyPoints slice is the empty sequence: the slice is non-nil only    *)
(* once a string has been appended to it.                                    *)
triageArticle(responseText) ==
    LET parsed == ParseJSONResponse(responseText)
    IN  IF parsed.nil
        THEN [verdict |-> "relevant", articleType |-> "other", keyPoints |-> <<>>,
              reason |-> "LLM response could not be parsed", practicalScore |-> 2]
        ELSE LET lowered == ToLower(getString(parsed.obj, "verdict", "relevant"))
                 verdict == IF lowered # "relevant" /\ lowered # "skip"
                            THEN "relevant" ELSE lowered
             IN  [verdict |-> verdict,
                  articleType |-> getString(parsed.obj, "article_type", "other"),
                  keyPoints |-> KeyPointsOf(parsed.obj),
                  reason |-> getString(parsed.obj, "relevance_reason", ""),
                  practicalScore |-> ClampScore(verdict,
                                        getInt(parsed.obj, "practical_score", 2))]

(* INSERT OR REPLACE INTO article_triage; key_points NULL is the empty       *)
(* sequence.  article_id references articles(id).                            *)
InsertTriage(d, articleID, r) ==
    IF ForeignKeysOn /\ articleID \notin ArticleIDs(d)
    THEN d
    ELSE [d EXCEPT !.article_triage = {t \in @ : t.article_id # articleID} \cup
              {[article_id |-> articleID, verdict |-> r.verdict,
                article_type |-> r.articleType, key_points |-> r.keyPoints,
                relevance_reason |-> r.reason, practical_score |-> r.practicalScore]}]

TriagedIDs(d) == {t.article_id : t \in d.article_triage}

(* A GetUntriagedArticles without "WHERE t.article_id IS NULL": every        *)
(* article of the period, newest first                                       *)
GetArticlesTriagedOrNot(d, periodID) ==
    LET RECURSIVE Desc(_)
        Desc(S) == IF S = {} THEN <<>>
                   ELSE LET m == CHOOSE x \in S : \A y \in S : y <= x
                        IN  <<m>> \o Desc(S \ {m})
    IN  Desc({i \in ArticleIDs(d) : d.articles[i].period_id = periodID})

(* GetUntriagedArticles(&periodID): ids of the period's articles without a   *)
(* triage row, newest first                                                  *)
GetUntriagedArticles(d, periodID) ==
    LET ids == {i \in ArticleIDs(d) : d.articles[i].period_id = periodID
                                      /\ i \notin TriagedIDs(d)}
        RECURSIVE Desc(_)
        Desc(S) == IF S = {} THEN <<>>
                   ELSE LET m == CHOOSE x \in S : \A y \in S : y <= x
                        IN  <<m>> \o Desc(S \ {m})
    IN  Desc(ids)

(* Generate returned an error and no text *)
GenerateError == [kind |-> "error", obj |-> <<>>]

NoResult == [Processed |-> 0, Relevant |-> 0, Skipped |-> 0, Errors |-> 0]

RECURSIVE TriageLoop(_, _, _, _, _, _)
TriageLoop(d, articles, i, generate, r, calls) ==
    IF i > Len(articles)
    THEN [db |-> d, result |-> r, calls |-> calls]
    ELSE LET response == generate[d.articles[articles[i]].url]
             sent == Append(calls, articles[i])
         IN  IF response = GenerateError
             THEN TriageLoop(d, articles, i + 1, generate, [r EXCEPT !.Errors = @ + 1], sent)
             ELSE LET t == triageArticle(response)
                  IN  TriageLoop(InsertTriage(d, articles[i], t), articles, i + 1, generate,
                          [r EXCEPT !.Processed = @ + 1,
                                    !.Relevant = IF t.verdict = "relevant" THEN @ + 1 ELSE @,
                                    !.Skipped = IF t.verdict = "relevant" THEN @ ELSE @ + 1],
                          sent)

(* A TriageArticles that goes over the articles the loop left untriaged once *)
(* more before it returns                                                    *)
TriageArticlesRetrying(d, provider, generate, periodID) ==
    IF provider = "none"
    THEN [db |-> d, result |-> [NoResult EXCEPT !.Errors = 1], calls |-> <<>>]
    ELSE LET first == TriageLoop(d, GetUntriagedArticles(d, periodID), 1, generate,
                                 NoResult, <<>>)
         IN  TriageLoop(first.db, GetUntriagedArticles(first.db, periodID), 1, generate,
                        first.result, first.calls)

(* TriageArticles.  provider is "none" for a nil provider; generate gives,   *)
(* for the URL of the article in the prompt, what Generate returns; calls    *)
(* lists the articles whose prompt went to the Generator, in order.          *)
TriageArticles(d, provider, generate, periodID) ==
    IF provider = "none"
    THEN [db |-> d, result |-> [NoResult EXCEPT !.Errors = 1], calls |-> <<>>]
    ELSE TriageLoop(d, GetUntriagedArticles(d, periodID), 1, generate, NoResult, <<>>)

-----------------------------------------------------------------------------
(* Specification SpecTriage: articles of one period are collected and        *)
(* TriageArticles runs over them with a Generator that may answer anything.  *)

TriagePeriod == <<<<2026, 2, 6>>>>

JAbsent == [t |-> "absent"]

(* The JSON object with the given values under verdict, practical_score and  *)
(* key_points, a key being left out when its value is JAbsent                *)
JObject(verdict, score, keyPoints) ==
    LET v == [verdict |-> verdict, practical_score |-> score, key_points |-> keyPoints]
    IN  [k \in {x \in DOMAIN v : v[x] # JAbsent} |-> v[k]]

VerdictValues ==
    {JAbsent, JStr("relevant"), JStr("skip"), JStr("SKIP"), JStr("maybe"), JNum(10)}

ScoreValues ==
    {JAbsent, JNum(-10), JNum(5), JNum(30), JNum(59), JNum(70), JStr("4")}

KeyPointValues ==
    {JAbsent, JStr("one point"), JArr(<<>>),
     JArr(<<JStr("p1"), JStr("p2"), JStr("p3")>>),
     JArr(<<JStr("p1"), JNum(20), JStr("p2"), JStr("p3"), JStr("p4"), JStr("p5"),
            JStr("p6")>>)}

Responses ==
    {[kind |-> k, obj |-> <<>>] : k \in {"empty", "prose", "json array"}}
    \cup {[kind |-> "object", obj |-> JObject(v, sc, JAbsent)] :
              v \in VerdictValues, sc \in ScoreValues}
    \cup {[kind |-> "fenced object", obj |-> JObject(JStr("relevant"), JNum(30), kp)] :
              kp \in KeyPointValues}

(* The URLs the prompts of a triage run of the period can carry *)
UntriagedURLs(d, periodID) ==
    LET ids == GetUntriagedArticles(d, periodID)
    IN  {d.articles[ids[i]].url : i \in 1..Len(ids)}

InitTriage ==
    /\ db = EmptyDB
    /\ env = NoEnv
    /\ run = NoRun
    /\ hist = NoHist
    /\ tx = Idle
    /\ last = NoCall
    /\ call = NoCall

TriageCollect(url) ==
    /\ ~HasURL(db.articles, url)
    /\ db' = InsertArticle(db, url, "First", Null, TriagePeriod).db
    /\ last' = [op |-> "InsertArticle"]
    /\ UNCHANGED <<tx, call, pipeVars>>

RunTriage(provider, generate) ==
    LET r == TriageArticles(db, provider, generate, TriagePeriod)
    IN  /\ db' = r.db
        /\ last' = [op |-> "TriageArticles", provider |-> provider,
                    generated |-> IF provider = "none" THEN <<>> ELSE generate,
                    result |-> r.result, calls |-> r.calls,
                    articles |-> db.articles,
                    untriaged |-> GetUntriagedArticles(db, TriagePeriod),
                    pre |-> db.article_triage, post |-> r.db.article_triage]
        /\ UNCHANGED <<tx, call, pipeVars>>

NextTriage ==
    \/ \E url \in URLs : TriageCollect(url)
    \/ \E provider \in {"none", "ollama"},
          generate \in [UntriagedURLs(db, TriagePeriod) -> Responses \cup {GenerateError}] :
           RunTriage(provider, generate)

SpecTriage == InitTriage /\ [][NextTriage]_vars

(* C6: every stored triage row has verdict relevant or skip, has verdict     *)
(* skip exactly when its practical_score is 0, has a practical_score in 1..5 *)
(* when its verdict is relevant, and has at most five key points.            *)
C6_TriageRowInvariants ==
    \A t \in db.article_triage :
        /\ t.verdict \in {"relevant", "skip"}
        /\ t.verdict = "skip" <=> t.practical_score = 0
        /\ t.verdict = "relevant" => t.practical_score \in 1..5
        /\ Len(t.key_points) <= 5

(* One run triaged two articles: the Generator answered SKIP with score 7    *)
(* for the first and seven key points, one of them a number, for the second. *)
C6_Witness ==
    /\ last.op = "TriageArticles"
    /\ last.result.Processed = 2
    /\ last.generated["https://a"].obj = JObject(JStr("SKIP"), JNum(70), JAbsent)
    /\ "key_points" \in DOMAIN last.generated["https://b"].obj
    /\ \E t \in db.article_triage : t.verdict = "skip" /\ t.practical_score = 0
    /\ \E t \in db.article_triage : Len(t.key_points) = 5

(* The Generator's text could not be parsed and the recovery row was stored. *)
C6_WitnessRecovery ==
    /\ last.op = "TriageArticles"
    /\ "https://a" \in DOMAIN last.generated
    /\ last.generated["https://a"].kind = "prose"
    /\ \E t \in db.article_triage :
          /\ db.articles[t.article_id].url = "https://a"
          /\ t.relevance_reason = "LLM response could not be parsed"
          /\ t.practical_score = 2

(* C24: TriageArticles sends every untriaged article of the period to the   *)
(* Generator once, in order, and no other article; an article whose call     *)
(* failed gets no triage row and adds one to Errors, every other article     *)
(* gets one row and adds one to Processed; the rows that existed before the  *)
(* run are all still there, unchanged.                                       *)
C24_TriageOnlyOnAnswer ==
    last.op = "TriageArticles" =>
        LET sent == {last.calls[c] : c \in DOMAIN last.calls}
            Failed(a) == last.generated[last.articles[a].url] = GenerateError
            Rows(rows, a) == {t \in rows : t.article_id = a}
        IN  /\ last.pre \subseteq last.post
            /\ \A t \in last.post \ last.pre : t.article_id \in sent
            /\ \A a \in sent : Rows(last.pre, a) = {}
            /\ IF last.provider = "none"
               THEN last.calls = <<>> /\ last.post = last.pre
               ELSE /\ last.calls = last.untriaged
                    /\ \A a \in sent :
                           Cardinality(Rows(last.post, a)) = IF Failed(a) THEN 0 ELSE 1
                    /\ last.result.Errors = Cardinality({a \in sent : Failed(a)})
                    /\ last.result.Processed = Cardinality({a \in sent : ~Failed(a)})

(* A run over two untriaged articles: the Generator failed for the first     *)
(* sent and answered for the second, which got its row.                      *)
C24_Witness ==
    /\ last.op = "TriageArticles"
    /\ Len(last.calls) = 2
    /\ last.generated[last.articles[last.calls[1]].url] = GenerateError
    /\ last.result.Errors = 1
    /\ last.result.Processed = 1
    /\ Cardinality(last.post) = 1

(* A later run in a store with a triaged and an untriaged article: only the  *)
(* untriaged one was sent, and the Generator failed for it again.            *)
C24_WitnessAlreadyTriaged ==
    /\ last.op = "TriageArticles"
    /\ Cardinality(last.pre) = 1
    /\ Len(last.articles) = 2
    /\ Len(last.calls) = 1
    /\ last.result.Errors = 1
    /\ last.post = last.pre

-----------------------------------------------------------------------------
(* Ward linkage.  A float64 value is held as the exact fraction n/d with     *)
(* d > 0; indices are the code's, from 0; the slice d of the code is the     *)
(* sequence whose element k+1 is d[k].  The result of a float operation is   *)
(* rounded to the nearest value with MantissaBits significant bits, ties to  *)
(* the even mantissa, as IEEE 754 does with 53 bits.  A merge carries the    *)
(* minimum found, distance2, and the distance the code reports, its root.    *)

Rat(n, d) == [n |-> n, d |-> d]
RatZero == Rat(0, 1)
RatLess(a, b) == a.n * b.d < b.n * a.d
RatEq(a, b) == a.n * b.d = b.n * a.d
RatAdd(a, b) == Rat(a.n * b.d + b.n * a.d, a.d * b.d)
RatScale(k, a) == Rat(k * a.n, a.d)
RatDiv(a, k) == Rat(a.n, a.d * k)

(* the element of a one-element set; its argument is evaluated once *)
Only(S) == CHOOSE x \in S : TRUE

RECURSIVE RatReduce(_, _)
RatReduce(n, d) ==
    IF d % 2 = 0 /\ n % 2 = 0 THEN RatReduce(n \div 2, d \div 2) ELSE Rat(n, d)

(* a/d > 0 rounded to MantissaBits bits, times sn/sd *)
RECURSIVE RoundNearestEven(_, _, _, _)
RoundNearestEven(a, d, sn, sd) ==
    IF a < 2^(MantissaBits - 1) * d THEN RoundNearestEven(2 * a, d, sn, 2 * sd)
    ELSE IF a >= 2^MantissaBits * d THEN RoundNearestEven(a, 2 * d, 2 * sn, sd)
    ELSE LET q == a \div d
             up == 2 * (a % d) > d \/ (2 * (a % d) = d /\ q % 2 = 1)
         IN  RatReduce((IF up THEN q + 1 ELSE q) * sn, sd)

(* the float64 nearest to the exact result r of one operation *)
Float(r) ==
    Only({IF v.n = 0 THEN RatZero
          ELSE IF v.n > 0 THEN RoundNearestEven(v.n, v.d, 1, 1)
          ELSE RatScale(-1, RoundNearestEven(-v.n, v.d, 1, 1)) : v \in {r}})

(* the result of math.Sqrt for a negative argument *)
NaN == Rat(0, 0)

(* the root of a/d > 0 rounded to MantissaBits bits, times sn/sd *)
RECURSIVE RoundRoot(_, _, _, _)
RoundRoot(a, d, sn, sd) ==
    IF a < 4^(MantissaBits - 1) * d THEN RoundRoot(4 * a, d, sn, 2 * sd)
    ELSE IF a >= 4^MantissaBits * d THEN RoundRoot(a, 4 * d, 2 * sn, sd)
    ELSE LET q == CHOOSE x \in 2^(MantissaBits - 1)..(2^MantissaBits - 1) :
                      x * x * d <= a /\ a < (x + 1) * (x + 1) * d
             up == 4 * a > (2 * q + 1) * (2 * q + 1) * d
         IN  RatReduce((IF up THEN q + 1 ELSE q) * sn, sd)

(* math.Sqrt *)
Sqrt(r) ==
    Only({IF v.n < 0 THEN NaN
          ELSE IF v.n = 0 THEN RatZero
          ELSE RoundRoot(v.n, v.d, 1, 1) : v \in {r}})

Min2(i, j) == IF i > j THEN j ELSE i
Max2(i, j) == IF i > j THEN i ELSE j

condensedIndex(n, i, j) ==
    LET a == Min2(i, j)
        b == Max2(i, j)
    IN  n * a - (a * (a + 1)) \div 2 + b - a - 1

extendedKey(n, i, j) ==
    LET base == (n * (n - 1)) \div 2
    IN  base + Min2(i, j) * (2 * n - 1) + Max2(i, j)

(* squared Euclidean distances, condensed, row-major upper triangle *)
pairwiseDistances(embeddings) ==
    LET n == Len(embeddings)
        PairAt(idx) == CHOOSE p \in (0..(n - 1)) \X (0..(n - 1)) :
                           p[1] < p[2] /\ condensedIndex(n, p[1], p[2]) = idx
        RECURSIVE SumSq(_, _, _)
        SumSq(x, y, k) == IF k > Len(x) THEN 0
                          ELSE (x[k] - y[k]) * (x[k] - y[k]) + SumSq(x, y, k + 1)
    IN  [c \in 1..((n * (n - 1)) \div 2) |->
            LET p == PairAt(c - 1)
            IN  Rat(SumSq(embeddings[p[1] + 1], embeddings[p[2] + 1], 1), 1)]

getDist(d, n, i, j) ==
    LET a == Min2(i, j)
        b == Max2(i, j)
    IN  IF i = j THEN RatZero
        ELSE IF a < n /\ b < n /\ condensedIndex(n, a, b) < Len(d)
             THEN d[condensedIndex(n, a, b) + 1]
        ELSE IF extendedKey(n, a, b) < Len(d)
             THEN d[extendedKey(n, a, b) + 1]
        ELSE RatZero

setDist(d, n, i, j, val) ==
    LET a == Min2(i, j)
        b == Max2(i, j)
        key == extendedKey(n, a, b)
        grown == [k \in 1..Max2(Len(d), key + 1) |-> IF k <= Len(d) THEN d[k] ELSE RatZero]
    IN  IF a < n /\ b < n
        THEN [d EXCEPT ![condensedIndex(n, a, b) + 1] = val]
        ELSE [grown EXCEPT ![key + 1] = val]

(* the Lance-Williams update after one merge, for k, k+1, .. newCluster-1 *)
RECURSIVE LanceWilliams(_, _, _, _, _, _, _, _, _)
LanceWilliams(d, n, active, size, minI, minJ, minDist, newCluster, k) ==
    IF k >= newCluster
    THEN d
    ELSE IF ~active[k]
         THEN LanceWilliams(d, n, active, size, minI, minJ, minDist, newCluster, k + 1)
         ELSE LET ni == size[minI]
                  nj == size[minJ]
                  nk == size[k]
                  dik == getDist(d, n, minI, k)
                  djk == getDist(d, n, minJ, k)
                  newDist == Float(RatDiv(Float(RatAdd(Float(RatAdd(
                                                  Float(RatScale(nk + ni, dik)),
                                                  Float(RatScale(nk + nj, djk)))),
                                              Float(RatScale(-nk, minDist)))),
                                          nk + ni + nj))
              IN  Only({LanceWilliams(updated, n, active, size, minI, minJ, minDist,
                                      newCluster, k + 1) :
                           updated \in {setDist(d, n, newCluster, k, newDist)}})

(* The first pair i < j of active clusters, in the order of the two loops,   *)
(* whose distance no other active pair undercuts                             *)
MinPair(d, n, active, bound) ==
    LET pairs == {p \in (0..(bound - 1)) \X (0..(bound - 1)) :
                      p[1] < p[2] /\ active[p[1]] /\ active[p[2]]}
        Before(p, q) == p[1] < q[1] \/ (p[1] = q[1] /\ p[2] <= q[2])
    IN  CHOOSE p \in pairs :
            \A q \in pairs :
                /\ ~RatLess(getDist(d, n, q[1], q[2]), getDist(d, n, p[1], p[2]))
                /\ RatEq(getDist(d, n, q[1], q[2]), getDist(d, n, p[1], p[2]))
                       => Before(p, q)

RECURSIVE WardSteps(_, _, _, _, _, _)
WardSteps(d, n, active, size, merges, step) ==
    IF step >= n - 1
    THEN merges
    ELSE LET newCluster == n + step
             Merged(p) ==
                 LET minI == p[1]
                     minJ == p[2]
                     minDist == getDist(d, n, minI, minJ)
                     newSize == size[minI] + size[minJ]
                     active2 == [active EXCEPT ![minI] = FALSE, ![minJ] = FALSE,
                                               ![newCluster] = TRUE]
                     size2 == [size EXCEPT ![newCluster] = newSize]
                 IN  [active |-> active2, size |-> size2,
                      d |-> LanceWilliams(d, n, active2, size2, minI, minJ, minDist,
                                          newCluster, 0),
                      merges |-> Append(merges, [a |-> minI, b |-> minJ,
                                                 distance2 |-> minDist,
                                                 distance |-> Sqrt(minDist),
                                                 size |-> newSize])]
         IN  Only({Only({WardSteps(s.d, n, s.active, s.size, s.merges, step + 1) :
                            s \in {Merged(p)}}) :
                      p \in {MinPair(d, n, active, n + step)}})

(* wardLinkage: n-1 merges over the condensed squared distances dist *)
wardLinkage(dist, n) ==
    Only({WardSteps(d, n, s.active, s.size, <<>>, 0) :
             d \in {dist},
             s \in {[active |-> [i \in 0..(2 * n - 2) |-> i < n],
                     size |-> [i \in 0..(2 * n - 2) |-> IF i < n THEN 1 ELSE 0]]}})

(* find with its path compression: the labels afterwards and the root *)
RECURSIVE find(_, _)
find(labels, i) ==
    IF labels[i] = i
    THEN [labels |-> labels, root |-> i]
    ELSE LET compressed == [labels EXCEPT ![i] = labels[labels[i]]]
         IN  find(compressed, compressed[i])

RECURSIVE setLabel(_, _, _)
setLabel(labels, b, label) ==
    IF labels[b] = b
    THEN [labels EXCEPT ![b] = label]
    ELSE setLabel([labels EXCEPT ![b] = label], labels[b], label)

(* m.distance < threshold: a cut that rejects a merge at exactly threshold *)
StrictlyWithinThreshold(distance, threshold) ==
    /\ distance # NaN
    /\ RatLess(distance, threshold)

(* m.distance <= threshold for the m.distance that math.Sqrt returned: false *)
(* for the NaN of a negative square                                          *)
WithinThreshold(distance, threshold) ==
    /\ distance # NaN
    /\ ~RatLess(threshold, distance)

RECURSIVE CutMerges(_, _, _, _, _)
CutMerges(labels, merges, n, threshold, step) ==
    IF step >= Len(merges)
    THEN labels
    ELSE LET m == merges[step + 1]
             newCluster == n + step
         IN  IF WithinThreshold(m.distance, threshold)
             THEN LET f == find(labels, m.a)
                  IN  CutMerges(setLabel([f.labels EXCEPT ![newCluster] = f.root],
                                         m.b, f.root),
                                merges, n, threshold, step + 1)
             ELSE CutMerges([labels EXCEPT ![newCluster] = newCluster],
                            merges, n, threshold, step + 1)

(* the remap of the roots to 0, 1, .. in the order of the points *)
RECURSIVE FinalLabels(_, _, _, _, _)
FinalLabels(labels, n, i, labelMap, final) ==
    IF i >= n
    THEN final
    ELSE LET f == find(labels, i)
             known == \E e \in labelMap : e[1] = f.root
             id == IF known THEN (CHOOSE e \in labelMap : e[1] = f.root)[2]
                   ELSE Cardinality(labelMap)
         IN  FinalLabels(f.labels, n, i + 1, labelMap \cup {<<f.root, id>>},
                         Append(final, id))

(* cutDendrogram: the cluster label of each of the n points *)
cutDendrogram(merges, n, threshold) ==
    FinalLabels(CutMerges([i \in 0..(2 * n - 2) |-> i], merges, n, threshold, 0),
                n, 0, {}, <<>>)

(* const DefaultDistanceThreshold = 1.2 *)
DefaultDistanceThreshold == Rat(6, 5)

(* NewClusterer(db, embedder, 0): a threshold <= 0 gives the default *)
NewClustererThreshold(distanceThreshold) ==
    IF distanceThreshold.n <= 0 THEN DefaultDistanceThreshold ELSE distanceThreshold

clusterEmbeddings(embeddings, threshold) ==
    cutDendrogram(wardLinkage(pairwiseDistances(embeddings), Len(embeddings)),
                  Len(embeddings), threshold)

-----------------------------------------------------------------------------
(* The Clusterer.  A title is the sequence of its whitespace-separated       *)
(* words as written; a label is the sequence of the words that " " joins.    *)

(* const BrieflyNotedLabel = "Briefly Noted" *)
BrieflyNotedLabel == <<"Briefly", "Noted">>

(* the stopWords map of generateLabel *)
StopWords ==
    {"the", "a", "an", "is", "are", "was", "were", "be", "been", "being", "have", "has",
     "had", "do", "does", "did", "will", "would", "could", "should", "may", "might",
     "can", "shall", "to", "of", "in", "for", "on", "with", "at", "by", "from", "as",
     "into", "through", "during", "before", "after", "above", "below", "and", "but",
     "or", "nor", "not", "so", "yet", "both", "either", "neither", "each", "every",
     "all", "any", "few", "more", "most", "other", "some", "such", "no", "only", "own",
     "same", "than", "too", "very", "just", "how", "what", "which", "who", "whom",
     "this", "that", "these", "those", "it", "its", "new", "about", "up", "out", "one",
     "two", "also", "like", "get", "use"}

(* strings.Trim(word, ".,!?:;\"'()-[]") on the lower-cased words of the model *)
TrimPunctuation(word) ==
    CASE word = "noted:" -> "noted"
      [] OTHER           -> word

(* len(word) of the trimmed lower-cased words of the model *)
WordLength(word) ==
    CASE word = "briefly" -> 7
      [] word = "noted"   -> 5
      [] word = "the"     -> 3
      [] word = "ai"      -> 2
      [] OTHER            -> 4

(* strings.Title of a lower-case word: its first letter in upper case *)
TitleCase(word) ==
    CASE word = "briefly" -> "Briefly"
      [] word = "noted"   -> "Noted"
      [] word = "the"     -> "The"
      [] word = "ai"      -> "Ai"
      [] OTHER            -> word

(* the words of a title that generateLabel counts *)
CountedWords(title) ==
    LET trimmed == [i \in 1..Len(title) |-> TrimPunctuation(ToLower(title[i]))]
    IN  SelectSeq(trimmed, LAMBDA w : WordLength(w) > 2 /\ w \notin StopWords)

RECURSIVE Occurrences(_, _)
Occurrences(words, w) ==
    IF words = <<>> THEN 0
    ELSE (IF Head(words) = w THEN 1 ELSE 0) + Occurrences(Tail(words), w)

RECURSIVE Concat(_)
Concat(seqs) == IF seqs = <<>> THEN <<>> ELSE Head(seqs) \o Concat(Tail(seqs))

(* wordCounts after the loop over the articles *)
WordCounts(titles) ==
    LET all == Concat([i \in 1..Len(titles) |-> CountedWords(titles[i])])
    IN  [w \in {all[i] : i \in 1..Len(all)} |-> Occurrences(all, w)]

(* The passes of "find top 3 words".  A pass keeps the first word of the map *)
(* iteration whose count no earlier word reached; Go iterates a map in an    *)
(* order it does not fix, so a pass can end with any word of maximal count.  *)
RECURSIVE TopWords(_, _)
TopWords(wordCounts, passes) ==
    IF passes = 0 \/ DOMAIN wordCounts = {}
    THEN {<<>>}
    ELSE LET top == {w \in DOMAIN wordCounts :
                        \A v \in DOMAIN wordCounts : wordCounts[v] <= wordCounts[w]}
         IN  UNION {{<<TitleCase(w)>> \o rest :
                        rest \in TopWords([v \in DOMAIN wordCounts \ {w} |-> wordCounts[v]],
                                          passes - 1)} : w \in top}

(* generateLabel: the labels a call can return for the articles with these   *)
(* titles.  Without a counted word the label is the first title (the titles  *)
(* of the model are shorter than the 50 bytes it is cut to).                 *)
generateLabel(titles) ==
    IF DOMAIN WordCounts(titles) = {}
    THEN {titles[1]}
    ELSE TopWords(WordCounts(titles), 3)

(* GetRelevantArticles: the ids of the period's articles triaged relevant,   *)
(* ORDER BY practical_score DESC; rows of equal score come in rowid order.   *)
GetRelevantArticles(d, periodID) ==
    LET Score(i) == (CHOOSE t \in d.article_triage : t.article_id = i).practical_score
        ids == {i \in ArticleIDs(d) :
                   /\ d.articles[i].period_id = periodID
                   /\ \E t \in d.article_triage : t.article_id = i /\ t.verdict = "relevant"}
        RECURSIVE Ordered(_)
        Ordered(S) ==
            IF S = {} THEN <<>>
            ELSE LET x == CHOOSE a \in S : \A b \in S :
                              \/ Score(b) < Score(a)
                              \/ (Score(b) = Score(a) /\ a <= b)
                 IN  <<x>> \o Ordered(S \ {x})
    IN  Ordered(ids)

(* ascending sequence of a set of ids *)
RECURSIVE Ascending(_)
Ascending(S) ==
    IF S = {} THEN <<>>
    ELSE LET m == CHOOSE x \in S : \A y \in S : x <= y
         IN  <<m>> \o Ascending(S \ {m})

(* "for _, group := range storylines": a label from generateLabel and one    *)
(* InsertStoryline per group of two or more, its error ignored.  The groups  *)
(* come out of a map, in any order.                                          *)
RECURSIVE StoreStorylines(_, _, _)
StoreStorylines(d, periodID, groups) ==
    IF groups = {}
    THEN {d}
    ELSE UNION {UNION {StoreStorylines(InsertStoryline(d, periodID, label, g).db,
                                       periodID, groups \ {g}) :
                          label \in generateLabel([i \in 1..Len(g) |-> d.articles[g[i]].title])} :
                   g \in groups}

(* ClusterArticles once the relevant articles are read (articles), the old   *)
(* storylines cleared (cleared) and the embeddings clustered (clusterLabels) *)
ClusterOutcomes(d, up, periodID, articles, cleared, clusterLabels) ==
    LET n == Len(articles)
        Outcome(store, err, storylineCount, articleCount, brieflyNotedCount) ==
            [db |-> store, err |-> err,
             result |-> [StorylineCount |-> storylineCount, ArticleCount |-> articleCount,
                         BrieflyNotedCount |-> brieflyNotedCount]]
        positions == [i \in 1..n |-> i]
        Group(l) == LET at == SelectSeq(positions, LAMBDA i : clusterLabels[i] = l)
                    IN  [k \in 1..Len(at) |-> articles[at[k]]]
        groups == {Group(clusterLabels[i]) : i \in 1..n}
        storylines == {g \in groups : Len(g) >= 2}
        brieflyNoted == Ascending(UNION {{g[1]} : g \in groups \ storylines})
        total == Cardinality(storylines) + (IF Len(brieflyNoted) > 0 THEN 1 ELSE 0)
    IN  IF n = 0 THEN {Outcome(d, FALSE, 0, 0, 0)}
        ELSE IF cleared.err THEN {Outcome(cleared.db, TRUE, 0, 0, 0)}
        ELSE IF n < 2
        THEN {Outcome(InsertStoryline(cleared.db, periodID, BrieflyNotedLabel, articles).db,
                      FALSE, 1, n, n)}
        ELSE IF ~up THEN {Outcome(cleared.db, TRUE, 0, 0, 0)}
        ELSE {Outcome(IF Len(brieflyNoted) > 0
                      THEN InsertStoryline(stored, periodID, BrieflyNotedLabel, brieflyNoted).db
                      ELSE stored,
                      FALSE, total, n, Len(brieflyNoted)) :
                 stored \in StoreStorylines(cleared.db, periodID, storylines)}

(* ClusterArticles: the outcomes a call can have.  embedder.up tells whether *)
(* Embed answers; embedder.vector gives the embedding of an article's text   *)
(* by the article's URL.  The singletons reach InsertStoryline in an order   *)
(* the map iteration decides; the rows written do not depend on it.          *)
ClusterArticles(d, embedder, periodID) ==
    UNION {UNION {UNION {ClusterOutcomes(d, embedder.up, periodID, articles, cleared,
                                         clusterLabels) :
                            clusterLabels \in
                                {clusterEmbeddings(
                                     [i \in 1..Len(articles) |->
                                         embedder.vector[d.articles[articles[i]].url]],
                                     NewClustererThreshold(RatZero))}} :
                     cleared \in {ClearStorylinesForPeriod(d, periodID)}} :
              articles \in {GetRelevantArticles(d, periodID)}}

-----------------------------------------------------------------------------
(* Collect and Fetch *)

(* Collector.Collect over the entries the feed parser returned (the NewsAPI  *)
(* client is not enabled)                                                    *)
RECURSIVE CollectLoop(_, _, _, _, _)
CollectLoop(d, entries, i, periodID, r) ==
    IF i > Len(entries)
    THEN [db |-> d, result |-> r]
    ELSE LET e == entries[i]
             ins == InsertArticle(d, e.url, e.title,
                                  IF e.content = "" THEN Null ELSE e.content, periodID)
         IN  CollectLoop(ins.db, entries, i + 1, periodID,
                         IF ins.id > 0 THEN [r EXCEPT !.NewArticles = @ + 1]
                                       ELSE [r EXCEPT !.Duplicates = @ + 1])

Collect(d, entries, periodID) ==
    CollectLoop(d, entries, 1, periodID,
                [TotalFound |-> Len(entries), NewArticles |-> 0, Duplicates |-> 0])

(* FeedParser.ParseAll over what parseFeed returns for each configured feed: *)
(* a feed that fails is logged and adds nothing                              *)
RECURSIVE ParseAll(_)
ParseAll(feeds) ==
    IF feeds = <<>> THEN <<>>
    ELSE (IF Head(feeds).err THEN <<>> ELSE Head(feeds).entries) \o ParseAll(Tail(feeds))

(* NewsAPIClient.Search: nil when the request, the status or the decoding    *)
(* fails, else the articles of the answer                                    *)
Search(answer) == IF answer.ok THEN answer.articles ELSE <<>>

(* SearchWithPriorities over the answers to the base query and to one query  *)
(* per priority: an article is kept the first time its URL is seen           *)
RECURSIVE KeepUnseen(_, _)
KeepUnseen(articles, seen) ==
    IF articles = <<>> THEN <<>>
    ELSE IF Head(articles).url \in seen THEN KeepUnseen(Tail(articles), seen)
    ELSE <<Head(articles)>> \o KeepUnseen(Tail(articles), seen \cup {Head(articles).url})

SearchWithPriorities(answers) ==
    KeepUnseen(Concat([i \in 1..Len(answers) |-> Search(answers[i])]), {})

(* A Collect that counts a source's candidates only when it stored them *)
CollectCountingStored(d, feedParser, newsClient, periodID) ==
    LET out == CollectLoop(
                   d, (IF feedParser.configured THEN ParseAll(feedParser.feeds) ELSE <<>>)
                      \o (IF newsClient.configured
                          THEN SearchWithPriorities(newsClient.answers) ELSE <<>>),
                   1, periodID, [TotalFound |-> 0, NewArticles |-> 0, Duplicates |-> 0])
    IN  [out EXCEPT !.result.TotalFound = out.result.NewArticles]

(* Collector.Collect with both sources.  feedParser.configured: there are    *)
(* feeds in the configuration; newsClient.configured: the client is enabled  *)
(* and has its key; newsClient.answers: what NewsAPI answers to the base     *)
(* query and then to the query of each active priority.                      *)
CollectFromSources(d, feedParser, newsClient, periodID) ==
    LET none == [TotalFound |-> 0, NewArticles |-> 0, Duplicates |-> 0]
        entries == ParseAll(feedParser.feeds)
        fed == IF feedParser.configured
               THEN CollectLoop(d, entries, 1, periodID,
                                [none EXCEPT !.TotalFound = @ + Len(entries)])
               ELSE [db |-> d, result |-> none]
        articles == IF Len(newsClient.answers) > 1
                    THEN SearchWithPriorities(newsClient.answers)
                    ELSE Search(newsClient.answers[1])
    IN  IF newsClient.configured
        THEN CollectLoop(fed.db, articles, 1, periodID,
                         [fed.result EXCEPT !.TotalFound = @ + Len(articles)])
        ELSE fed

(* GetArticlesNeedingFetch(&periodID), newest first *)
GetArticlesNeedingFetch(d, periodID) ==
    LET ids == {i \in ArticleIDs(d) :
                   /\ d.articles[i].content \in {Null, ""}
                   /\ ~d.articles[i].content_fetched
                   /\ d.articles[i].period_id = periodID}
        RECURSIVE Desc(_)
        Desc(S) == IF S = {} THEN <<>>
                   ELSE LET m == CHOOSE x \in S : \A y \in S : y <= x
                        IN  <<m>> \o Desc(S \ {m})
    IN  Desc(ids)

(* strings.ToLower(u.Host) of the URLs of the model; "" when url.Parse gives *)
(* no URL                                                                    *)
Host(url) ==
    CASE url = "https://a"   -> "a"
      [] url = "https://b"   -> "b"
      [] url = "https://c"   -> "c"
      [] url = "https://b/1" -> "b"
      [] url = "https://B/2" -> "b"
      [] url = "https://b/3" -> "b"
      [] OTHER               -> ""

(* whether url.Parse, and with it http.NewRequest, accepts the URL *)
ParsesAsURL(url) == url # "%zz"

(* A text the extraction returns: the name it is stored under, the bytes and *)
(* the characters it has without the white space around it, and the bytes of *)
(* that white space.                                                         *)
Text(name, chars, bytes, padding) ==
    [name |-> name, chars |-> chars, bytes |-> bytes, padding |-> padding]

(* strings.TrimSpace and len *)
TrimSpace(text) == [text EXCEPT !.padding = 0]
ByteLen(text) == text.bytes + text.padding

(* What a request meets: transport is "ok", "connection error" (client.Do    *)
(* fails, a timeout included), "unreadable body" (io.ReadAll fails) or       *)
(* "unparsable html" (readability fails); status and text are those of the   *)
(* response when there is one.                                               *)
Response(transport, status, text) ==
    [transport |-> transport, status |-> status, text |-> text]

NoText == Text("", 0, 0, 0)
Page == Response("ok", 200, Text("fetched text", 101, 101, 0))
Short == Response("ok", 200, Text("short text", 12, 12, 2))
HTTPError == Response("ok", 404, NoText)
Unreachable == Response("connection error", 0, NoText)

(* A fetchArticleContent that returns the error of client.Do to its caller *)
fetchArticleContentReturningTransportErrors(web, url) ==
    LET resp == web[url]
        text == TrimSpace(resp.text)
        Returns(content, httpErr, requested) ==
            [content |-> content, httpErr |-> httpErr, requested |-> requested]
    IN  IF ~ParsesAsURL(url) THEN Returns("", TRUE, FALSE)
        ELSE IF resp.transport = "connection error" THEN Returns("", TRUE, TRUE)
        ELSE IF resp.status >= 400 THEN Returns("", TRUE, TRUE)
        ELSE IF resp.transport # "ok" THEN Returns("", FALSE, TRUE)
        ELSE IF ByteLen(text) > 100 THEN Returns(text.name, FALSE, TRUE)
        ELSE Returns("", FALSE, TRUE)

(* fetchArticleContent.  web gives what the request for a URL meets.         *)
(* requested tells whether client.Do was reached.                            *)
fetchArticleContent(web, url) ==
    LET resp == web[url]
        text == TrimSpace(resp.text)
        Returns(content, httpErr, requested) ==
            [content |-> content, httpErr |-> httpErr, requested |-> requested]
    IN  IF ~ParsesAsURL(url) THEN Returns("", TRUE, FALSE)
        ELSE IF resp.transport = "connection error" THEN Returns("", FALSE, TRUE)
        ELSE IF resp.status >= 400 THEN Returns("", TRUE, TRUE)
        ELSE IF resp.transport # "ok" THEN Returns("", FALSE, TRUE)
        ELSE IF ByteLen(text) > 100 THEN Returns(text.name, FALSE, TRUE)
        ELSE Returns("", FALSE, TRUE)

(* requests lists the articles for which client.Do was reached, in order *)
RECURSIVE FetchLoop(_, _, _, _, _, _, _)
FetchLoop(d, web, articles, i, failedDomains, r, requests) ==
    IF i > Len(articles)
    THEN [db |-> d, result |-> r, requests |-> requests]
    ELSE LET id == articles[i]
             domain == Host(d.articles[id].url)
             got == fetchArticleContent(web, d.articles[id].url)
             failed == [r EXCEPT !.Failed = @ + 1]
             sent == IF got.requested THEN Append(requests, id) ELSE requests
         IN  IF domain \in failedDomains
             THEN FetchLoop(MarkArticleFetchAttempted(d, id), web, articles, i + 1,
                            failedDomains, failed, requests)
             ELSE IF got.httpErr
             THEN FetchLoop(MarkArticleFetchAttempted(d, id), web, articles, i + 1,
                            IF domain # "" THEN failedDomains \cup {domain}
                                           ELSE failedDomains,
                            failed, sent)
             ELSE IF got.content # ""
             THEN FetchLoop(UpdateArticleContent(d, id, got.content), web, articles, i + 1,
                            failedDomains, [r EXCEPT !.Fetched = @ + 1], sent)
             ELSE FetchLoop(MarkArticleFetchAttempted(d, id), web, articles, i + 1,
                            failedDomains, failed, sent)

FetchMissingContent(d, web, periodID) ==
    FetchLoop(d, web, GetArticlesNeedingFetch(d, periodID), 1, {},
              [Fetched |-> 0, Failed |-> 0], <<>>)

-----------------------------------------------------------------------------
(* Synthesize and Compose *)

(* GetStorylinesForPeriod: ORDER BY article_count DESC, equal counts in      *)
(* rowid order                                                               *)
GetStorylinesForPeriod(d, periodID) ==
    LET RECURSIVE Ordered(_)
        Ordered(S) ==
            IF S = {} THEN <<>>
            ELSE LET x == CHOOSE a \in S : \A b \in S :
                              \/ b.article_count < a.article_count
                              \/ (b.article_count = a.article_count /\ a.id <= b.id)
                 IN  <<x>> \o Ordered(S \ {x})
    IN  Ordered(StorylinesOfPeriod(d, periodID))

(* GetStorylineArticles: the articles the junction rows of a storyline name *)
GetStorylineArticles(d, storylineID) ==
    Ascending({j.article_id : j \in JunctionRows(d, storylineID)})

(* SourceReference{Title, URL} of each article *)
ArticleRefs(d, articles) ==
    [i \in 1..Len(articles) |-> [title |-> d.articles[articles[i]].title,
                                 url |-> d.articles[articles[i]].url]]

(* parseSourceRefs: one reference per JSON object of source_references *)
parseSourceRefs(m) ==
    IF "source_references" \in DOMAIN m /\ m["source_references"].t = "array"
    THEN LET objs == SelectSeq(m["source_references"].a, LAMBDA v : v.t = "object")
         IN  [i \in 1..Len(objs) |-> [title |-> objs[i].title, url |-> objs[i].url]]
    ELSE <<>>

(* synthesizeStoryline after Generate answered; an unparseable answer gives  *)
(* the label as title and every article as a reference                       *)
synthesizeStoryline(d, storyline, articles, answer, periodID) ==
    LET parsed == ParseJSONResponse(answer)
        title == IF parsed.nil THEN storyline.label
                 ELSE getString(parsed.obj, "title", storyline.label)
        refs == IF parsed.nil THEN ArticleRefs(d, articles) ELSE parseSourceRefs(parsed.obj)
    IN  IF answer = GenerateError
        THEN [db |-> d, err |-> TRUE]
        ELSE InsertStorylineNarrative(d, storyline.id, periodID, title, refs)

(* synthesizeBrieflyNoted: no Generator call *)
synthesizeBrieflyNoted(d, storyline, articles, periodID) ==
    InsertStorylineNarrative(d, storyline.id, periodID, BrieflyNotedLabel,
                             ArticleRefs(d, articles))

(* GetNarrativeForStoryline, finding no row *)
NoNarrativeForStoryline(d, storylineID) == {}

(* GetNarrativeForStoryline: the rows the SELECT matches; the caller only    *)
(* asks whether there is one                                                 *)
GetNarrativeForStoryline(d, storylineID) ==
    {n \in d.storyline_narratives : n.storyline_id = storylineID}

(* The loop of SynthesizePeriod.  calls lists the storylines for which       *)
(* Generate was invoked.                                                     *)
RECURSIVE SynthesizeLoop(_, _, _, _, _, _, _)
SynthesizeLoop(d, storylines, i, answer, periodID, r, calls) ==
    IF i > Len(storylines)
    THEN [db |-> d, result |-> r, calls |-> calls]
    ELSE LET storyline == storylines[i]
             articles == GetStorylineArticles(d, storyline.id)
             noted == storyline.label = BrieflyNotedLabel
             out == IF noted
                    THEN synthesizeBrieflyNoted(d, storyline, articles, periodID)
                    ELSE synthesizeStoryline(d, storyline, articles, answer, periodID)
         IN  IF GetNarrativeForStoryline(d, storyline.id) # {}
             THEN SynthesizeLoop(d, storylines, i + 1, answer, periodID,
                                 [r EXCEPT !.NarrativesCreated = @ + 1], calls)
             ELSE IF Len(articles) = 0
             THEN SynthesizeLoop(d, storylines, i + 1, answer, periodID, r, calls)
             ELSE SynthesizeLoop(out.db, storylines, i + 1, answer, periodID,
                                 IF out.err THEN [r EXCEPT !.Errors = @ + 1]
                                            ELSE [r EXCEPT !.NarrativesCreated = @ + 1],
                                 IF noted THEN calls ELSE Append(calls, storyline.id))

(* SynthesizePeriod; answer is what Generate returns for a synthesis prompt *)
SynthesizePeriod(d, provider, answer, periodID) ==
    IF provider = "none"
    THEN [db |-> d, result |-> [NarrativesCreated |-> 0, Errors |-> 1], calls |-> <<>>]
    ELSE SynthesizeLoop(d, GetStorylinesForPeriod(d, periodID), 1, answer, periodID,
                        [NarrativesCreated |-> 0, Errors |-> 0], <<>>)

(* GetNarrativesForPeriod: the period's narratives joined with their         *)
(* storylines, ORDER BY s.article_count DESC                                 *)
GetNarrativesForPeriod(d, periodID) ==
    LET Count(n) == (CHOOSE st \in d.storylines : st.id = n.storyline_id).article_count
        rows == {n \in d.storyline_narratives :
                    n.period_id = periodID /\ n.storyline_id \in StorylineIDs(d)}
        RECURSIVE Ordered(_)
        Ordered(S) ==
            IF S = {} THEN <<>>
            ELSE LET x == CHOOSE a \in S : \A b \in S :
                              \/ Count(b) < Count(a)
                              \/ (Count(b) = Count(a) /\ a.id <= b.id)
                 IN  <<x>> \o Ordered(S \ {x})
    IN  Ordered(rows)

(* INSERT INTO briefings that keeps the period's earlier row *)
InsertBriefingAdding(d, periodID, tldr, body, storylineCount, articleCount) ==
    [d EXCEPT !.briefings = @ \cup
                  {[period_id |-> periodID, tldr |-> tldr, body_markdown |-> body,
                    storyline_count |-> storylineCount, article_count |-> articleCount]}]

(* INSERT OR REPLACE INTO briefings: period_id is UNIQUE *)
InsertBriefing(d, periodID, tldr, body, storylineCount, articleCount) ==
    [d EXCEPT !.briefings = {b \in @ : b.period_id # periodID} \cup
                  {[period_id |-> periodID, tldr |-> tldr, body_markdown |-> body,
                    storyline_count |-> storylineCount, article_count |-> articleCount]}]

(* the lines "- " + title of the narratives not titled "Briefly Noted" *)
fallbackTLDR(narratives) ==
    LET main == SelectSeq(narratives, LAMBDA n : n.title # BrieflyNotedLabel)
    IN  IF Len(main) = 0
        THEN <<<<"- ", <<"No significant storylines today.">>>>>>
        ELSE [i \in 1..Len(main) |-> <<"- ", main[i].title>>]

(* generateTLDR: the lines of the TL;DR, each the pair of its prefix and its *)
(* text; the trimmed text of an answer that holds no tldr_bullets array is   *)
(* one line without prefix                                                   *)
generateTLDR(provider, answer, narratives) ==
    LET parsed == ParseJSONResponse(answer)
    IN  IF provider = "none" THEN fallbackTLDR(narratives)
        ELSE IF answer = GenerateError \/ answer.kind = "empty" THEN fallbackTLDR(narratives)
        ELSE IF /\ ~parsed.nil
                /\ "tldr_bullets" \in DOMAIN parsed.obj
                /\ parsed.obj["tldr_bullets"].t = "array"
        THEN LET strs == SelectSeq(parsed.obj["tldr_bullets"].a, LAMBDA v : v.t = "string")
             IN  [i \in 1..Len(strs) |-> <<"- ", strs[i].s>>]
        ELSE <<<<"", <<answer.kind>>>>>>

(* assembleBody: the titles of the sections, the main narratives first *)
assembleBody(narratives) ==
    LET titles == [i \in 1..Len(narratives) |-> narratives[i].title]
    IN  SelectSeq(titles, LAMBDA t : t # BrieflyNotedLabel)
        \o SelectSeq(titles, LAMBDA t : t = BrieflyNotedLabel)

(* storeEmptyBriefing *)
storeEmptyBriefing(d, periodID) ==
    InsertBriefing(d, periodID, <<<<"- ", <<"No articles collected today.">>>>>>,
                   <<<<"No briefing content available for this period.">>>>, 0, 0)

RECURSIVE SumArticleCount(_)
SumArticleCount(storylines) ==
    IF storylines = <<>> THEN 0
    ELSE Head(storylines).article_count + SumArticleCount(Tail(storylines))

(* ComposeBriefing; answer is what Generate returns for the TL;DR prompt *)
ComposeBriefing(d, provider, answer, periodID) ==
    LET narratives == GetNarrativesForPeriod(d, periodID)
        storylines == GetStorylinesForPeriod(d, periodID)
        articleCount == SumArticleCount(storylines)
    IN  IF Len(narratives) = 0
        THEN [db |-> storeEmptyBriefing(d, periodID), empty |-> TRUE]
        ELSE [db |-> InsertReport(
                         InsertBriefing(d, periodID,
                                        generateTLDR(provider, answer, narratives),
                                        assembleBody(narratives),
                                        Len(storylines), articleCount),
                         periodID, articleCount, Len(storylines)),
              empty |-> FALSE]

-----------------------------------------------------------------------------
(* The run command and the pipeline *)

(* llm.CreateProvider: the provider it returns ("none" for nil) and the      *)
(* endpoints it contacts on the way.  OllamaProvider.IsConfigured sends      *)
(* GET <ollama_url>/api/tags; OpenAIProvider.IsConfigured reads the key.     *)
CreateProvider(services) ==
    LET probed == ToLower(services.provider) = "ollama"
        fallback == IF services.apiKey THEN "openai" ELSE "none"
    IN  [provider |-> IF probed /\ services.ollamaUp THEN "ollama" ELSE fallback,
         contacted |-> IF probed THEN {"GET ollama /api/tags"} ELSE {}]

(* pipeline.New: the provider of CreateProvider and an OllamaEmbedder, which *)
(* is built without a request                                                *)
New(services, embedding) ==
    LET p == CreateProvider(services)
    IN  [provider |-> p.provider, contacted |-> p.contacted,
         embedder |-> [up |-> services.ollamaUp, vector |-> embedding]]

StageNames == <<"Collect", "Fetch", "Triage", "Cluster", "Synthesize", "Compose">>

(* Pipeline.DryRun: six step results made of counts read from the store *)
DryRun(d, periodID) ==
    LET inPeriod == {i \in ArticleIDs(d) : d.articles[i].period_id = periodID}
        counts == <<Cardinality(inPeriod),
                    Len(GetArticlesNeedingFetch(d, periodID)),
                    Len(GetUntriagedArticles(d, periodID)),
                    Len(GetRelevantArticles(d, periodID)),
                    Len(GetStorylinesForPeriod(d, periodID)),
                    Cardinality({b \in d.briefings : b.period_id = periodID})>>
    IN  [i \in 1..6 |-> [Name |-> StageNames[i], Err |-> FALSE, Summary |-> counts[i]]]

(* "if step.Err != nil { return r }" after the Cluster step, never taken *)
ContinuesAfterCluster(step) == FALSE

(* "if step.Err != nil { return r }" after the Cluster step *)
StopsAfterCluster(step) == step.Err

(* What a completed run left in the store for its period *)
StoredCounts(d, periodID) ==
    [articles |-> Len(d.articles),
     triage |-> Cardinality(d.article_triage),
     storylines |-> Cardinality(StorylinesOfPeriod(d, periodID)),
     narratives |-> Cardinality({n \in d.storyline_narratives : n.period_id = periodID}),
     briefing |-> {<<b.storyline_count, b.article_count>> :
                      b \in {x \in d.briefings : x.period_id = periodID}},
     labels |-> {st.label : st \in StorylinesOfPeriod(d, periodID)}]

-----------------------------------------------------------------------------
(* Specification Spec: the run command (run and run --dry-run) against a     *)
(* fixed outside world, with the viewer rating storylines in between.        *)

Today == <<2026, 2, 6>>

FeedURLs == {"https://a", "https://b", "https://c"}

Entry(url, title) == [url |-> url, title |-> title, content |-> ""]

(* What the feed parser returns on every run: three entries *)
Feeds ==
    {<<Entry("https://a", ta), Entry("https://b", tb), Entry("https://c", <<"The", "AI">>)>> :
        ta \in {<<"Briefly">>, <<"Briefly", "Noted:">>},
        tb \in {<<"Briefly", "Noted:">>, <<"The", "AI">>}}

Web == [u \in FeedURLs |-> CASE u = "https://a" -> Page
                             [] u = "https://b" -> HTTPError
                             [] OTHER           -> Short]

TriageAnswers ==
    {[kind |-> "object", obj |-> JObject(JStr("relevant"), JNum(30), JAbsent)],
     [kind |-> "fenced object", obj |-> JObject(JStr("SKIP"), JNum(30), JAbsent)]}

Embeddings ==
    {[u \in FeedURLs |-> CASE u = "https://a" -> <<0>>
                           [] u = "https://b" -> b
                           [] OTHER           -> c] : b, c \in {<<1>>, <<9>>}}

Services ==
    {[provider |-> "ollama", ollamaUp |-> TRUE, apiKey |-> FALSE],
     [provider |-> "ollama", ollamaUp |-> FALSE, apiKey |-> TRUE],
     [provider |-> "ollama", ollamaUp |-> FALSE, apiKey |-> FALSE],
     [provider |-> "openai", ollamaUp |-> TRUE, apiKey |-> TRUE],
     [provider |-> "openai", ollamaUp |-> TRUE, apiKey |-> FALSE]}

(* What Generate returns for a synthesis prompt and for the TL;DR prompt *)
WritingAnswers ==
    {GenerateError,
     [kind |-> "empty", obj |-> <<>>],
     [kind |-> "prose", obj |-> <<>>],
     [kind |-> "object",
      obj |-> [title |-> JStr(<<"Generated", "Title">>),
               tldr_bullets |-> JArr(<<JStr(<<"bullet">>), JNum(10)>>)]]}

Init ==
    /\ db = EmptyDB
    /\ tx = Idle
    /\ last = NoCall
    /\ call = NoCall
    /\ env \in [feed : Feeds, web : {Web}, triage : [FeedURLs -> TriageAnswers],
                embedding : Embeddings, services : Services, writing : WritingAnswers]
    /\ run = NoRun
    /\ hist = NoHist

StepResult(name, err, summary) == [Name |-> name, Err |-> err, Summary |-> summary]

(* Ids of the period's earlier storylines that the store still refers to *)
Remaining(d, ids) ==
    ids \cap (StorylineIDs(d)
              \cup {j.storyline_id : j \in d.storyline_articles}
              \cup {n.storyline_id : n \in d.storyline_narratives})

(* The end of Pipeline.Run: what the run left in the store is noted *)
Finished(d, steps) ==
    /\ run' = [run EXCEPT !.pc = "done", !.steps = steps]
    /\ hist' = [hist EXCEPT !.runs = Append(@, [complete |-> Len(steps) = 6,
                                                stored |-> StoredCounts(d, run.periodID)])]

(* runCmd up to the first step of Pipeline.Run: resolvePeriod against the    *)
(* store, then pipeline.New                                                  *)
StartRun ==
    LET rp == resolvePeriod(db, Today, 0, "\n")
        pipe == New(env.services, env.embedding)
    IN  /\ run.pc \in {"idle", "done"}
        /\ Len(hist.runs) < MaxRuns
        /\ rp.err = ""
        /\ run' = [pc |-> "Collect", periodID |-> rp.periodID,
                   daysBack |-> rp.effectiveDaysBack, provider |-> pipe.provider,
                   embedder |-> pipe.embedder, contacted |-> pipe.contacted,
                   steps |-> <<>>]
        /\ UNCHANGED <<db, tx, last, call, env, hist>>

runCollect ==
    LET out == Collect(db, env.feed, run.periodID)
    IN  /\ run.pc = "Collect"
        /\ db' = out.db
        /\ run' = [run EXCEPT !.pc = "Fetch",
                              !.steps = Append(@, StepResult("Collect", FALSE, out.result))]
        /\ UNCHANGED <<tx, last, call, env, hist>>

runFetch ==
    LET out == FetchMissingContent(db, env.web, run.periodID)
    IN  /\ run.pc = "Fetch"
        /\ db' = out.db
        /\ run' = [run EXCEPT !.pc = "Triage",
                              !.steps = Append(@, StepResult("Fetch", FALSE, out.result))]
        /\ UNCHANGED <<tx, last, call, env, hist>>

runTriage ==
    LET out == TriageArticles(db, run.provider, env.triage, run.periodID)
    IN  /\ run.pc = "Triage"
        /\ db' = out.db
        /\ run' = [run EXCEPT !.pc = "Cluster",
                              !.steps = Append(@, StepResult("Triage", FALSE, out.result))]
        /\ UNCHANGED <<tx, last, call, env, hist>>

runCluster ==
    /\ run.pc = "Cluster"
    /\ \E out \in ClusterArticles(db, run.embedder, run.periodID) :
           LET step == StepResult("Cluster", out.err, out.result)
               before == {st.id : st \in StorylinesOfPeriod(db, run.periodID)}
           IN  /\ db' = out.db
               /\ last' = [op |-> "ClusterArticles", err |-> out.err, result |-> out.result,
                           relevant |-> Len(GetRelevantArticles(db, run.periodID)),
                           before |-> before,
                           remaining |-> Remaining(out.db, before),
                           after |-> StorylinesOfPeriod(out.db, run.periodID)]
               /\ IF StopsAfterCluster(step)
                  THEN Finished(out.db, Append(run.steps, step))
                  ELSE /\ run' = [run EXCEPT !.pc = "Synthesize", !.steps = Append(@, step)]
                       /\ UNCHANGED hist
    /\ UNCHANGED <<tx, call, env>>

runSynthesize ==
    LET out == SynthesizePeriod(db, run.provider, env.writing, run.periodID)
    IN  /\ run.pc = "Synthesize"
        /\ db' = out.db
        /\ run' = [run EXCEPT !.pc = "Compose",
                              !.steps = Append(@, StepResult("Synthesize", FALSE, out.result))]
        /\ UNCHANGED <<tx, last, call, env, hist>>

runCompose ==
    LET out == ComposeBriefing(db, run.provider, env.writing, run.periodID)
        briefing == CHOOSE b \in out.db.briefings : b.period_id = run.periodID
    IN  /\ run.pc = "Compose"
        /\ db' = out.db
        /\ last' = [op |-> "ComposeBriefing", empty |-> out.empty,
                    period_id |-> run.periodID, provider |-> run.provider,
                    answer |-> env.writing, tldr |-> briefing.tldr,
                    fallback |-> fallbackTLDR(GetNarrativesForPeriod(db, run.periodID)),
                    storylines |-> GetStorylinesForPeriod(db, run.periodID),
                    briefings |-> {b \in out.db.briefings : b.period_id = run.periodID},
                    reports |-> {r \in out.db.run_reports : r.period_id = run.periodID}]
        /\ Finished(out.db, Append(run.steps,
                        StepResult("Compose", FALSE,
                                   [StorylineCount |-> briefing.storyline_count,
                                    ArticleCount |-> briefing.article_count])))
        /\ UNCHANGED <<tx, call, env>>

(* run --dry-run as one step: resolvePeriod, pipeline.New, Pipeline.DryRun *)
DryRunCommand ==
    LET rp == resolvePeriod(db, Today, 0, "\n")
        pipe == New(env.services, env.embedding)
    IN  /\ run.pc \in {"idle", "done"}
        /\ rp.err = ""
        /\ db' = db
        /\ last' = [op |-> "DryRun", pre |-> db, post |-> db',
                    contacted |-> pipe.contacted, steps |-> DryRun(db, rp.periodID)]
        /\ UNCHANGED <<tx, call, env, run, hist>>

(* The viewer rates a storyline: POST /api/storyline-feedback *)
ViewerRates(storylineID) ==
    /\ hist.feedback < MaxFeedback
    /\ db' = HandleStorylineFeedback(
                 db, storylineID,
                 (CHOOSE st \in db.storylines : st.id = storylineID).period_id, "useful")
    /\ hist' = [hist EXCEPT !.feedback = @ + 1]
    /\ UNCHANGED <<tx, last, call, env, run>>

Next ==
    \/ StartRun
    \/ runCollect
    \/ runFetch
    \/ runTriage
    \/ runCluster
    \/ runSynthesize
    \/ runCompose
    \/ DryRunCommand
    \/ \E id \in StorylineIDs(db) : ViewerRates(id)

Spec == Init /\ [][Next]_vars

-----------------------------------------------------------------------------
(* Claims about the pipeline *)

(* C3: two full runs of collect; fetch; triage; cluster; synthesize; compose *)
(* for the same period, against unchanged sources and deterministic          *)
(* providers and with no viewer action in between, leave the same stored     *)
(* counts (articles, triage rows, storylines, narratives, the briefing's     *)
(* storyline_count and article_count) and the same set of storyline labels.  *)
C3_SecondRunStoresTheSame ==
    \A i \in 1..(Len(hist.runs) - 1) :
        (/\ hist.feedback = 0
         /\ hist.runs[i].complete
         /\ hist.runs[i + 1].complete)
        => hist.runs[i + 1].stored = hist.runs[i].stored

(* C4: the recorded steps are a prefix of Collect, Fetch, Triage, Cluster,   *)
(* Synthesize, Compose and the stage about to run is the next of that order; *)
(* a run ends after four steps with the error in the Cluster step, or after  *)
(* six with no error in the Cluster step, whatever Fetch and Triage          *)
(* reported; Synthesize and Compose are reached only after a Cluster step    *)
(* without error.                                                            *)
C4_StagesRunInOrder ==
    LET steps == run.steps
        n == Len(steps)
        Position(name) == CHOOSE k \in 1..6 : StageNames[k] = name
    IN  /\ \A i \in 1..n : i <= 6 /\ steps[i].Name = StageNames[i]
        /\ run.pc \in {"Collect", "Fetch", "Triage", "Cluster", "Synthesize", "Compose"}
               => n = Position(run.pc) - 1
        /\ run.pc \in {"Synthesize", "Compose"} => ~steps[4].Err
        /\ run.pc = "done"
               => /\ n \in {4, 6}
                  /\ n = 4 <=> steps[4].Err
                  /\ \A i \in 1..n : steps[i].Err => i = 4 /\ n = 4

(* a run that ended at a failed Cluster step after Fetch reported failures *)
C4_Witness ==
    /\ run.pc = "done"
    /\ Len(run.steps) = 4
    /\ run.steps[4].Err
    /\ run.steps[2].Summary.Failed > 0

(* a run that went through all six stages although Triage reported an error *)
C4_WitnessComplete ==
    /\ run.pc = "done"
    /\ Len(run.steps) = 6
    /\ run.steps[3].Summary.Errors > 0
    /\ run.steps[2].Summary.Failed > 0

(* C5: a dry run writes nothing to the store and contacts no provider        *)
(* endpoint between the start of the command and its end.                    *)
C5_DryRunTouchesNothing ==
    last.op = "DryRun" => last.post = last.pre /\ last.contacted = {}

(* C8: after a successful ClusterArticles on a period with a relevant        *)
(* article the period has exactly one storyline labelled "Briefly Noted" if  *)
(* some article ended in a cluster of size 1 and none otherwise.             *)
C8_OneBrieflyNotedIffSingleton ==
    (last.op = "ClusterArticles" /\ ~last.err /\ last.relevant >= 1)
    => Cardinality({st \in last.after : st.label = BrieflyNotedLabel})
           = (IF last.result.BrieflyNotedCount > 0 THEN 1 ELSE 0)

(* C9: ClusterArticles on a period that already has storylines returns       *)
(* without error and no storyline, junction row or narrative of the earlier  *)
(* run remains.                                                              *)
C9_ReClusterReplacesStorylines ==
    (last.op = "ClusterArticles" /\ last.before # {})
    => ~last.err /\ last.remaining = {}

(* C10: after ComposeBriefing on a period without narratives the store holds *)
(* the sentinel briefing with counts 0/0 and a run report of the period with *)
(* article_count 0 and storyline_count 0.                                    *)
C10_EmptyComposeWritesReport ==
    (run.pc = "done" /\ last.op = "ComposeBriefing" /\ last.empty)
    => /\ \E b \in db.briefings :
              /\ b.period_id = last.period_id
              /\ b.tldr = <<<<"- ", <<"No articles collected today.">>>>>>
              /\ b.storyline_count = 0 /\ b.article_count = 0
       /\ \E r \in db.run_reports :
              /\ r.period_id = last.period_id
              /\ r.article_count = 0 /\ r.storyline_count = 0

(* C11: when a period with narratives is composed and the Generator returns  *)
(* an error, an empty response or text that is not the requested JSON, the   *)
(* stored TL;DR is the fallback list of "- <title>" lines (or the line       *)
(* "- No significant storylines today."), never the provider's text.         *)
C11_TLDRFallsBack ==
    (/\ last.op = "ComposeBriefing"
     /\ ~last.empty
     /\ last.provider # "none"
     /\ last.answer.kind \in {"error", "empty", "prose"})
    => last.tldr = last.fallback

(* C12: after ComposeBriefing on a period with a narrative the period has    *)
(* exactly one briefing row and exactly one run report, both with            *)
(* storyline_count = the number of the period's storylines and article_count *)
(* = the sum of their article_count; composing again replaces the rows.      *)
C12_OneBriefingOneReport ==
    LET RECURSIVE Sum(_)
        Sum(S) == IF S = {} THEN 0
                  ELSE LET x == CHOOSE y \in S : TRUE
                       IN  x.article_count + Sum(S \ {x})
        rows == {last.storylines[i] : i \in 1..Len(last.storylines)}
    IN  (last.op = "ComposeBriefing" /\ ~last.empty)
        => /\ Cardinality(last.briefings) = 1
           /\ Cardinality(last.reports) = 1
           /\ \A x \in last.briefings \cup
                       {[storyline_count |-> r.storyline_count,
                         article_count |-> r.article_count] : r \in last.reports} :
                  /\ x.storyline_count = Cardinality(rows)
                  /\ x.article_count = Sum(rows)

(* a second compose of a period whose first compose stored the sentinel *)
C12_Witness ==
    /\ last.op = "ComposeBriefing"
    /\ ~last.empty
    /\ Len(last.storylines) >= 1
    /\ Len(hist.runs) = 2
    /\ hist.runs[1].complete
    /\ hist.runs[1].stored.briefing = {<<0, 0>>}

(* a second compose of a period after a first one with narratives *)
C12_WitnessRecompose ==
    /\ last.op = "ComposeBriefing"
    /\ ~last.empty
    /\ Len(hist.runs) = 2
    /\ hist.runs[1].complete
    /\ hist.runs[1].stored.narratives >= 1
    /\ hist.runs[2].stored.storylines >= 2

(* C16: when resolvePeriod asks for consent and the operator denies, the run *)
(* ends without an error: resolvePeriod returns no error value and the       *)
(* command does not exit with the nonzero code.                              *)
C16_DenialIsNotAnError ==
    (call.op = "resolvePeriod" /\ call.out.asked /\ call.denied)
        => call.out.err = "" /\ call.exit = 0

(* C17: GetLastRunDate returns the latest end date among the periods of all *)
(* stored run reports, and the empty string when there is none.              *)
C17_LastRunIsLatestEnd ==
    call.op = "resolvePeriod" =>
        IF call.ends = {}
        THEN call.lastRun = NoDate
        ELSE /\ call.lastRun \in call.ends
             /\ \A e \in call.ends : ParseDate(e) <= ParseDate(call.lastRun)

-----------------------------------------------------------------------------
(* Specification SpecSynthesize: the articles of one period are collected    *)
(* and triaged, and ClusterArticles and SynthesizePeriod run over them in    *)
(* any order and any number of times.                                        *)

MaxClusterRuns == 2

SynthPeriod == <<Today>>

InitSynthesize ==
    /\ db = EmptyDB
    /\ tx = Idle
    /\ last = NoCall
    /\ call = NoCall
    /\ env = NoEnv
    /\ run = NoRun
    /\ hist = NoHist

SynthCollect(url) ==
    /\ ~HasURL(db.articles, url)
    /\ db' = Collect(db, <<Entry(url, <<"The", "AI">>)>>, SynthPeriod).db
    /\ last' = [op |-> "Collect"]
    /\ UNCHANGED <<tx, call, pipeVars>>

SynthTriage(generate) ==
    /\ GetUntriagedArticles(db, SynthPeriod) # <<>>
    /\ db' = TriageArticles(db, "ollama", generate, SynthPeriod).db
    /\ last' = [op |-> "TriageArticles"]
    /\ UNCHANGED <<tx, call, pipeVars>>

SynthCluster(embedder) ==
    /\ Len(hist.runs) < MaxClusterRuns
    /\ \E out \in ClusterArticles(db, embedder, SynthPeriod) :
           /\ db' = out.db
           /\ last' = [op |-> "ClusterArticles", err |-> out.err, up |-> embedder.up,
                       result |-> out.result,
                       relevant |-> Len(GetRelevantArticles(db, SynthPeriod)),
                       articles |-> GetRelevantArticles(db, SynthPeriod),
                       storylines |-> StorylinesOfPeriod(db, SynthPeriod),
                       junctions |-> db.storyline_articles,
                       narratives |-> db.storyline_narratives,
                       storylinesAfter |-> StorylinesOfPeriod(out.db, SynthPeriod),
                       junctionsAfter |-> out.db.storyline_articles,
                       narrativesAfter |-> out.db.storyline_narratives]
    /\ hist' = [hist EXCEPT !.runs = Append(@, "ClusterArticles")]
    /\ UNCHANGED <<tx, call, env, run>>

SynthSynthesize(provider, answer) ==
    LET out == SynthesizePeriod(db, provider, answer, SynthPeriod)
    IN  /\ db' = out.db
        /\ last' = [op |-> "SynthesizePeriod", provider |-> provider, answer |-> answer,
                    storylines |-> GetStorylinesForPeriod(db, SynthPeriod),
                    junctions |-> db.storyline_articles,
                    articles |-> db.articles,
                    pre |-> db.storyline_narratives,
                    post |-> out.db.storyline_narratives,
                    calls |-> out.calls, result |-> out.result]
        /\ UNCHANGED <<tx, call, pipeVars>>

NextSynthesize ==
    \/ \E url \in FeedURLs : SynthCollect(url)
    \/ \E generate \in [UntriagedURLs(db, SynthPeriod) -> TriageAnswers] : SynthTriage(generate)
    \/ \E vector \in Embeddings, up \in BOOLEAN : SynthCluster([up |-> up, vector |-> vector])
    \/ \E provider \in {"none", "ollama"}, answer \in WritingAnswers :
           SynthSynthesize(provider, answer)

SpecSynthesize == InitSynthesize /\ [][NextSynthesize]_vars

(* C13: across any sequence of ClusterArticles and SynthesizePeriod runs     *)
(* every storyline has at most one narrative; SynthesizePeriod leaves every  *)
(* narrative that already exists in place and unchanged, adds none for its   *)
(* storyline, does not call the Generator for that storyline and, when it    *)
(* has a provider and so reaches its loop, counts it in NarrativesCreated.   *)
C13_ExistingNarrativesKept ==
    LET had == {s \in DOMAIN last.storylines :
                   \E n \in last.pre : n.storyline_id = last.storylines[s].id}
    IN  /\ \A s \in db.storylines :
              Cardinality({n \in db.storyline_narratives : n.storyline_id = s.id}) <= 1
        /\ last.op = "SynthesizePeriod" =>
              /\ last.pre \subseteq last.post
              /\ \A s \in had :
                    /\ Cardinality({n \in last.post :
                                       n.storyline_id = last.storylines[s].id}) = 1
                    /\ \A c \in DOMAIN last.calls : last.calls[c] # last.storylines[s].id
              /\ last.provider # "none" =>
                     last.result.NarrativesCreated =
                         Cardinality(had) + Cardinality(last.post \ last.pre)

(* SynthesizePeriod ran over two storylines of which one had its narrative   *)
(* and the other got one from the Generator in this run.                     *)
C13_Witness ==
    /\ last.op = "SynthesizePeriod"
    /\ Len(last.storylines) = 2
    /\ Cardinality(last.pre) = 1
    /\ Cardinality(last.post) = 2
    /\ Len(last.calls) = 1
    /\ last.result.NarrativesCreated = 2

(* C14: for a "Briefly Noted" storyline that has articles and no narrative,  *)
(* SynthesizePeriod does not call the Generator and leaves a narrative       *)
(* titled "Briefly Noted" whose source references list every article of the  *)
(* storyline, whatever the Generator does and whether or not there is one.   *)
C14_BrieflyNotedWithoutGenerator ==
    last.op = "SynthesizePeriod" =>
        \A s \in DOMAIN last.storylines :
            LET storyline == last.storylines[s]
                articles == {j.article_id : j \in {r \in last.junctions :
                                                      r.storyline_id = storyline.id}}
            IN  (/\ storyline.label = BrieflyNotedLabel
                 /\ articles # {}
                 /\ ~\E n \in last.pre : n.storyline_id = storyline.id)
                => /\ \A c \in DOMAIN last.calls : last.calls[c] # storyline.id
                   /\ \E n \in last.post :
                         /\ n.storyline_id = storyline.id
                         /\ n.title = BrieflyNotedLabel
                         /\ {n.source_references[k].url : k \in DOMAIN n.source_references}
                                = {last.articles[a].url : a \in articles}


(* C20: when ClusterArticles fails, the storylines of the period, their      *)
(* junction rows and their narratives are exactly what they were before the  *)
(* call.                                                                     *)
C20_FailedClusterChangesNothing ==
    (last.op = "ClusterArticles" /\ last.err) =>
        /\ last.storylinesAfter = last.storylines
        /\ last.junctionsAfter = last.junctions
        /\ last.narrativesAfter = last.narratives

C30_StorylinesPartitionRelevant ==
    (last.op = "ClusterArticles" /\ ~last.err /\ last.relevant >= 1) =>
        LET relevant == {last.articles[i] : i \in 1..Len(last.articles)}
            Members(s) == {j.article_id : j \in {r \in last.junctionsAfter :
                                                    r.storyline_id = s.id}}
            RECURSIVE Counted(_)
            Counted(S) == IF S = {} THEN 0
                          ELSE LET s == CHOOSE x \in S : TRUE
                               IN  s.article_count + Counted(S \ {s})
        IN  /\ \A a \in relevant :
                  Cardinality({s \in last.storylinesAfter : a \in Members(s)}) = 1
            /\ \A s \in last.storylinesAfter : Members(s) \subseteq relevant
            /\ Counted(last.storylinesAfter) = last.relevant
            /\ last.result.ArticleCount = last.relevant
            /\ last.result.StorylineCount = Cardinality(last.storylinesAfter)

(* ClusterArticles ran again over a period that had storylines and has two   *)
(* relevant articles and a third article that is not relevant: the two       *)
(* relevant ones form the period's only storyline.                           *)
C30_Witness ==
    /\ last.op = "ClusterArticles"
    /\ ~last.err
    /\ Len(hist.runs) = 2
    /\ last.storylines # {}
    /\ last.relevant = 2
    /\ Len(db.articles) = 3
    /\ Cardinality(last.storylinesAfter) = 1
    /\ \E s \in last.storylinesAfter : s.article_count = 2 /\ s.label # BrieflyNotedLabel

(* ClusterArticles ran over three relevant articles: a storyline of two and  *)
(* the Briefly Noted storyline of the third.                                 *)
C30_WitnessSingleton ==
    /\ last.op = "ClusterArticles"
    /\ ~last.err
    /\ last.relevant = 3
    /\ Cardinality(last.storylinesAfter) = 2
    /\ last.result.BrieflyNotedCount = 1

-----------------------------------------------------------------------------
(* Specification SpecMigrate: database.Open runs migrate over a database     *)
(* file that is fresh, legacy or left by an earlier Open.  Here db is the    *)
(* schema of the file: user_version, whether sqlite_master has the articles  *)
(* table, and the versions whose DDL is in the schema.  Every statement can  *)
(* fail and the process can stop between two statements.  The migrations     *)
(* slice has one entry today and later versions are appended to it.          *)

MaxMigrations == 3
MaxOpens == 3

(* var migrations = []Migration{...}: versions 1..n in order *)
MigrationLists ==
    {[v \in 1..n |-> [Version |-> v]] : n \in 1..MaxMigrations}

latestVersion(migrations) ==
    IF Len(migrations) = 0 THEN 0 ELSE migrations[Len(migrations)].Version

FreshFile == [user_version |-> 0, articles |-> FALSE, ddl |-> {}]

(* Files written before the migration system: the articles table without a  *)
(* user_version, the rest of the first schema present or not                *)
LegacyFiles == {[user_version |-> 0, articles |-> TRUE, ddl |-> ddl] : ddl \in {{}, {1}}}

getSchemaVersion(d) == d.user_version

(* an isLegacyDB that finds no articles table *)
NeverLegacy(d) == FALSE

isLegacyDB(d) == d.articles

(* a PRAGMA user_version that changes nothing *)
PragmaIgnored(d, version) == d

(* conn.Exec("PRAGMA user_version = %d") *)
PragmaUserVersion(d, version) == [d EXCEPT !.user_version = version]

(* m.Up(tx): CREATE ... IF NOT EXISTS; the first migration creates articles *)
Up(d, m) == [d EXCEPT !.ddl = @ \cup {m.Version},
                      !.articles = @ \/ m.Version = 1]

InitMigrate ==
    /\ db \in {FreshFile} \cup LegacyFiles
    /\ tx = Idle
    /\ last = NoCall
    /\ call = NoCall
    /\ env \in [migrations : MigrationLists]
    /\ run = NoRun
    /\ hist = [runs |-> <<>>]

(* Open or migrate returns: the connection is closed on an error *)
OpenReturns(d, err, failure) ==
    /\ last' = [op |-> "Open", err |-> err, failure |-> failure,
                user_version |-> d.user_version, before |-> run.before,
                applied |-> run.applied, stamps |-> run.stamps,
                atBegin |-> run.atBegin, start |-> run.start, file |-> d]
    /\ hist' = [hist EXCEPT !.runs = Append(@, [err |-> err, failure |-> failure,
                                                start |-> run.before,
                                                user_version |-> d.user_version])]
    /\ run' = NoRun

OpenDatabase ==
    /\ run.pc = "idle"
    /\ Len(hist.runs) < MaxOpens
    /\ run' = [pc |-> "getSchemaVersion", steps |-> <<>>, current |-> 0, i |-> 1,
               before |-> db.user_version, atBegin |-> db.user_version,
               applied |-> <<>>, stamps |-> <<>>, start |-> db]
    /\ UNCHANGED <<db, tx, last, call, env, hist>>

ReadSchemaVersion(ok) ==
    /\ run.pc = "getSchemaVersion"
    /\ IF ok
       THEN /\ run' = [run EXCEPT !.current = getSchemaVersion(db),
                                  !.pc = IF getSchemaVersion(db) = 0 THEN "isLegacyDB"
                                                                     ELSE "latest"]
            /\ UNCHANGED <<last, hist>>
       ELSE OpenReturns(db, TRUE, "getSchemaVersion")
    /\ UNCHANGED <<db, tx, call, env>>

CheckLegacy(ok) ==
    /\ run.pc = "isLegacyDB"
    /\ IF ok
       THEN /\ run' = [run EXCEPT !.pc = IF isLegacyDB(db) THEN "stamp" ELSE "latest"]
            /\ UNCHANGED <<last, hist>>
       ELSE OpenReturns(db, TRUE, "isLegacyDB")
    /\ UNCHANGED <<db, tx, call, env>>

StampLegacy(ok) ==
    /\ run.pc = "stamp"
    /\ IF ok
       THEN /\ db' = PragmaUserVersion(db, 1)
            /\ run' = [run EXCEPT !.current = 1, !.pc = "latest",
                                  !.stamps = Append(@, [version |-> 1, legacy |-> TRUE,
                                                        committed |-> 1 \in db.ddl])]
            /\ UNCHANGED <<last, hist>>
       ELSE /\ OpenReturns(db, TRUE, "stamp")
            /\ UNCHANGED db
    /\ UNCHANGED <<tx, call, env>>

(* if current >= latest { return nil } *)
CompareLatest ==
    /\ run.pc = "latest"
    /\ IF run.current >= latestVersion(env.migrations)
       THEN OpenReturns(db, FALSE, "")
       ELSE /\ run' = [run EXCEPT !.pc = "range"]
            /\ UNCHANGED <<last, hist>>
    /\ UNCHANGED <<db, tx, call, env>>

(* for _, m := range migrations { if m.Version <= current { continue } ... } *)
RangeMigrations ==
    /\ run.pc = "range"
    /\ IF run.i > Len(env.migrations)
       THEN OpenReturns(db, FALSE, "")
       ELSE /\ run' = IF env.migrations[run.i].Version <= run.current
                      THEN [run EXCEPT !.i = @ + 1]
                      ELSE [run EXCEPT !.pc = "Begin"]
            /\ UNCHANGED <<last, hist>>
    /\ UNCHANGED <<db, tx, call, env>>

BeginMigration(ok) ==
    /\ run.pc = "Begin"
    /\ IF ok
       THEN /\ tx' = [op |-> "migration", version |-> env.migrations[run.i].Version,
                      work |-> db]
            /\ run' = [run EXCEPT !.pc = "Up", !.atBegin = db.user_version]
            /\ UNCHANGED <<last, hist>>
       ELSE /\ OpenReturns(db, TRUE, "Begin")
            /\ UNCHANGED tx
    /\ UNCHANGED <<db, call, env>>

(* m.Up(tx), and tx.Rollback() when it fails *)
UpMigration(ok) ==
    /\ run.pc = "Up"
    /\ IF ok
       THEN /\ tx' = [tx EXCEPT !.work = Up(@, env.migrations[run.i])]
            /\ run' = [run EXCEPT !.pc = "Commit"]
            /\ UNCHANGED <<last, hist>>
       ELSE /\ tx' = Idle
            /\ OpenReturns(db, TRUE, "Up")
    /\ UNCHANGED <<db, call, env>>

CommitMigration(ok) ==
    /\ run.pc = "Commit"
    /\ IF ok
       THEN /\ db' = tx.work
            /\ run' = [run EXCEPT !.pc = "PRAGMA", !.applied = Append(@, tx.version)]
            /\ UNCHANGED <<last, hist>>
       ELSE /\ OpenReturns(db, TRUE, "Commit")
            /\ UNCHANGED db
    /\ tx' = Idle
    /\ UNCHANGED <<call, env>>

(* the PRAGMA after the commit, outside the transaction *)
StampVersion(ok) ==
    LET m == env.migrations[run.i]
    IN  /\ run.pc = "PRAGMA"
        /\ IF ok
           THEN /\ db' = PragmaUserVersion(db, m.Version)
                /\ run' = [run EXCEPT !.pc = "range", !.i = @ + 1,
                                      !.stamps = Append(@, [version |-> m.Version,
                                                            legacy |-> FALSE,
                                                            committed |-> m.Version \in db.ddl])]
                /\ UNCHANGED <<last, hist>>
           ELSE /\ OpenReturns(db, TRUE, "PRAGMA")
                /\ UNCHANGED db
        /\ UNCHANGED <<tx, call, env>>

(* The process stops between two statements; an open transaction is lost *)
ProcessStops ==
    /\ run.pc \notin {"idle"}
    /\ tx' = Idle
    /\ run' = NoRun
    /\ last' = [op |-> "stopped"]
    /\ hist' = [hist EXCEPT !.runs = Append(@, [err |-> TRUE, failure |-> "stopped",
                                                start |-> run.before,
                                                user_version |-> db.user_version])]
    /\ UNCHANGED <<db, call, env>>

NextMigrate ==
    \/ OpenDatabase
    \/ \E ok \in BOOLEAN : ReadSchemaVersion(ok)
    \/ \E ok \in BOOLEAN : CheckLegacy(ok)
    \/ \E ok \in BOOLEAN : StampLegacy(ok)
    \/ CompareLatest
    \/ RangeMigrations
    \/ \E ok \in BOOLEAN : BeginMigration(ok)
    \/ \E ok \in BOOLEAN : UpMigration(ok)
    \/ \E ok \in BOOLEAN : CommitMigration(ok)
    \/ \E ok \in BOOLEAN : StampVersion(ok)
    \/ ProcessStops

SpecMigrate == InitMigrate /\ [][NextMigrate]_vars

(* C15: an Open applies the pending migrations in ascending version order,   *)
(* each in its own transaction, and sets user_version to m only once         *)
(* migration m is committed (a legacy file is stamped 1 without migration    *)
(* 1); an Open in which Up or Commit of a migration fails leaves             *)
(* user_version as it was before that migration; and every Open that returns *)
(* without error, on a fresh, legacy, half-migrated or migrated file, leaves *)
(* user_version at the latest version.                                       *)
C15_MigrationsInOrder ==
    /\ run.pc # "idle" =>
          /\ \A k \in 1..Len(run.applied) :
                /\ run.applied[k] > run.before
                /\ k > 1 => run.applied[k] = run.applied[k - 1] + 1
          /\ \A k \in 1..Len(run.stamps) :
                IF run.stamps[k].legacy
                THEN k = 1 /\ run.before = 0 /\ db.articles
                ELSE /\ run.stamps[k].committed
                     /\ \E j \in 1..Len(run.applied) : run.applied[j] = run.stamps[k].version
          /\ tx # Idle => tx.work.user_version = db.user_version
    /\ last.op = "Open" =>
          /\ last.failure \in {"Up", "Commit"} => last.user_version = last.atBegin
          /\ ~last.err => last.user_version = latestVersion(env.migrations)
    /\ db.user_version <= latestVersion(env.migrations)

(* An Open failed in the Up of migration 2 with user_version left at 1, and  *)
(* the next Open ended without error at version 3.                           *)
C15_Witness ==
    /\ Len(hist.runs) = 2
    /\ hist.runs[1].failure = "Up"
    /\ hist.runs[1].user_version = 1
    /\ ~hist.runs[2].err
    /\ hist.runs[2].start = 1
    /\ hist.runs[2].user_version = 3
    /\ last.op = "Open"
    /\ last.applied = <<2, 3>>


(* C28: an Open of a file with user_version 0 and an articles table sets     *)
(* user_version to 1 without migration 1: its DDL is not executed, so the    *)
(* tables the file had are all it has of the first schema; the migrations    *)
(* above 1 are applied in order; and the Open, when no statement fails,      *)
(* returns without error with user_version at the latest version.            *)
C28_LegacyStampedWithoutMigrationOne ==
    (last.op = "Open" /\ last.start.user_version = 0 /\ last.start.articles) =>
        LET latest == latestVersion(env.migrations)
        IN  /\ \A k \in 1..Len(last.applied) : last.applied[k] # 1
            /\ 1 \in last.file.ddl <=> 1 \in last.start.ddl
            /\ last.file.articles
            /\ last.stamps # <<>> =>
                   last.stamps[1] = [version |-> 1, legacy |-> TRUE,
                                     committed |-> 1 \in last.start.ddl]
            /\ last.err => last.failure \in {"getSchemaVersion", "isLegacyDB", "stamp",
                                              "Begin", "Up", "Commit", "PRAGMA"}
            /\ ~last.err =>
                   /\ last.user_version = latest
                   /\ last.applied = [k \in 1..(latest - 1) |-> k + 1]
                   /\ Len(last.stamps) = latest
                   /\ \A k \in 1..latest : last.stamps[k].version = k
                   /\ last.file.ddl = last.start.ddl \cup 2..latest

(* The first Open of a file that has the articles table and nothing else of  *)
(* the first schema, with three migrations known: it ends at version 3 with  *)
(* migrations 2 and 3 applied and the first schema still missing.            *)
C28_Witness ==
    /\ last.op = "Open"
    /\ ~last.err
    /\ last.start = [user_version |-> 0, articles |-> TRUE, ddl |-> {}]
    /\ Len(hist.runs) = 1
    /\ last.applied = <<2, 3>>
    /\ last.user_version = 3
    /\ db.ddl = {2, 3}

-----------------------------------------------------------------------------
(* Specification SpecWard: wardLinkage is applied to a condensed array of    *)
(* squared distances over two to MaxPoints points.                           *)

MaxPoints == 4

(* 0, 1, 1.421875 and 2 *)
SquaredDistances == {Rat(0, 1), Rat(1, 1), Rat(91, 64), Rat(2, 1)}

(* 0.5, 1, 1.19, DefaultDistanceThreshold and 2 *)
Thresholds == {Rat(1, 2), Rat(1, 1), Rat(119, 100), DefaultDistanceThreshold, Rat(2, 1)}

InitWard ==
    /\ db = EmptyDB
    /\ tx = Idle
    /\ last = NoCall
    /\ call = NoCall
    /\ env \in UNION {[n : {n}, dist : [1..((n * (n - 1)) \div 2) -> SquaredDistances]] :
                         n \in 2..MaxPoints}
    /\ run = NoRun
    /\ hist = NoHist

CallWardLinkage ==
    /\ call.op = "none"
    /\ call' = [op |-> "wardLinkage", n |-> env.n, dist |-> env.dist,
                merges |-> wardLinkage(env.dist, env.n)]
    /\ UNCHANGED <<db, tx, last, pipeVars>>

(* cutDendrogram over the merges wardLinkage returned *)
CallCutDendrogram(threshold) ==
    /\ call.op = "wardLinkage"
    /\ last.op = "none"
    /\ last' = [op |-> "cutDendrogram", n |-> call.n, merges |-> call.merges,
                threshold |-> threshold,
                labels |-> cutDendrogram(call.merges, call.n, threshold)]
    /\ UNCHANGED <<db, tx, call, pipeVars>>

NextWard ==
    \/ CallWardLinkage
    \/ \E threshold \in Thresholds : CallCutDendrogram(threshold)

SpecWard == InitWard /\ [][NextWard]_vars

(* C18: for every condensed array of squared distances over n >= 2 points,   *)
(* wardLinkage returns n-1 merges, each of two clusters active at that step  *)
(* into cluster n+step with the sum of their sizes as its size, and the      *)
(* reported merge distances never decrease.                                  *)
C18_MergesMonotone ==
    call.op = "wardLinkage" =>
        LET n == call.n
            m == call.merges
            SizeOf(c) == IF c < n THEN 1 ELSE m[c - n + 1].size
        IN  /\ Len(m) = n - 1
            /\ \A k \in 1..Len(m) :
                  /\ m[k].a # m[k].b
                  /\ {m[k].a, m[k].b} \subseteq 0..(n + k - 2)
                  /\ \A j \in 1..(k - 1) : {m[k].a, m[k].b} \cap {m[j].a, m[j].b} = {}
                  /\ m[k].size = SizeOf(m[k].a) + SizeOf(m[k].b)
            /\ \A k \in 1..(Len(m) - 1) : ~RatLess(m[k + 1].distance, m[k].distance)


(* the nodes of the dendrogram that accepted merges connect with node i: a   *)
(* merge at step k whose reported distance is <= threshold joins its a and   *)
(* its b to the node n+k-1 it creates, a rejected merge joins nothing        *)
RECURSIVE ConnectedTo(_, _, _, _)
ConnectedTo(S, merges, n, threshold) ==
    LET accepted == {k \in 1..Len(merges) :
                        /\ merges[k].distance.d # 0
                        /\ merges[k].distance.n * threshold.d
                               <= threshold.n * merges[k].distance.d}
        Nodes(k) == {merges[k].a, merges[k].b, n + k - 1}
        more == S \cup UNION {Nodes(k) : k \in {x \in accepted : Nodes(x) \cap S # {}}}
    IN  IF more = S THEN S ELSE ConnectedTo(more, merges, n, threshold)

(* C22: cutDendrogram gives two points the same label exactly when merges    *)
(* with a reported distance <= T connect them; the labels are 0..k-1 for the *)
(* k clusters; a T below every merge distance gives n labels and a T at or   *)
(* above the largest gives one.                                              *)
C22_CutFollowsAcceptedMerges ==
    last.op = "cutDendrogram" =>
        LET n == last.n
            m == last.merges
            T == last.threshold
            labels == last.labels
            used == {labels[i] : i \in 1..Len(labels)}
            clusters == {ConnectedTo({i}, m, n, T) \cap (0..(n - 1)) : i \in 0..(n - 1)}
        IN  /\ Len(labels) = n
            /\ \A i, j \in 0..(n - 1) :
                   (labels[i + 1] = labels[j + 1]) <=> (j \in ConnectedTo({i}, m, n, T))
            /\ used = 0..(Cardinality(clusters) - 1)
            /\ (\A k \in 1..Len(m) : RatLess(T, m[k].distance)) => Cardinality(used) = n
            /\ (\A k \in 1..Len(m) : ~RatLess(T, m[k].distance)) => used = {0}

(* a cut of four points that accepts two merges and rejects the last: two    *)
(* clusters, one of three points                                             *)
C22_Witness ==
    /\ last.op = "cutDendrogram"
    /\ last.n = 4
    /\ ~RatLess(last.threshold, last.merges[2].distance)
    /\ RatLess(last.threshold, last.merges[3].distance)
    /\ \E i \in 1..4 : Cardinality({j \in 1..4 : last.labels[j] = last.labels[i]}) = 3

(* a cut that rejects a merge and accepts a later, closer one: the points of *)
(* the rejected cluster stay apart and the accepted merge joins no point     *)
C22_WitnessAcceptedAfterRejected ==
    /\ last.op = "cutDendrogram"
    /\ \E k \in 1..(Len(last.merges) - 1) :
           /\ RatLess(last.threshold, last.merges[k].distance)
           /\ ~RatLess(last.threshold, last.merges[k + 1].distance)
           /\ last.merges[k + 1].b = last.n + k - 1

-----------------------------------------------------------------------------
(* Specification SpecCancel: Pipeline.Run through Collect, Fetch and Triage  *)
(* with the loops of Fetch and Triage taken one article at a time, while the *)
(* caller of Run may cancel the context during either loop.  hist.afterCancel *)
(* lists the per-item work begun and the writes made with the context        *)
(* already cancelled.                                                        *)

InitCancel ==
    /\ db = EmptyDB
    /\ tx = Idle
    /\ last = NoCall
    /\ call = NoCall
    /\ env \in [feed : Feeds, web : {Web}, triage : [FeedURLs -> TriageAnswers],
                cancelled : {FALSE}]
    /\ run = [pc |-> "Collect", steps |-> <<>>, periodID |-> <<Today>>]
    /\ hist = [afterCancel |-> <<>>]

(* cancel() of the context given to Pipeline.Run *)
CancelContext ==
    /\ ~env.cancelled
    /\ run.pc \in {"FetchLoop", "TriageLoop"}
    /\ env' = [env EXCEPT !.cancelled = TRUE]
    /\ UNCHANGED <<db, tx, last, call, run, hist>>

(* What is noted of a step taken with the context cancelled *)
Noted(stage, work) ==
    IF env.cancelled THEN Append(hist.afterCancel, [stage |-> stage, work |-> work])
                     ELSE hist.afterCancel

(* runCollect: Collect takes no context *)
CancelCollect ==
    LET out == Collect(db, env.feed, run.periodID)
    IN  /\ run.pc = "Collect"
        /\ db' = out.db
        /\ run' = [run EXCEPT !.pc = "Fetch",
                              !.steps = Append(@, StepResult("Collect", FALSE, out.result))]
        /\ UNCHANGED <<tx, last, call, env, hist>>

(* runFetch up to the loop of FetchMissingContent *)
BeginFetch ==
    /\ run.pc = "Fetch"
    /\ run' = [pc |-> "FetchLoop", steps |-> run.steps, periodID |-> run.periodID,
               articles |-> GetArticlesNeedingFetch(db, run.periodID), i |-> 1,
               failedDomains |-> {}, result |-> [Fetched |-> 0, Failed |-> 0]]
    /\ UNCHANGED <<db, tx, last, call, env, hist>>

(* one turn of the loop of FetchMissingContent, or its end *)
FetchItem ==
    /\ run.pc = "FetchLoop"
    /\ IF run.i > Len(run.articles)
       THEN /\ run' = [pc |-> "Triage", periodID |-> run.periodID,
                       steps |-> Append(run.steps, StepResult("Fetch", FALSE, run.result))]
            /\ UNCHANGED <<db, hist>>
       ELSE LET id == run.articles[run.i]
                one == FetchLoop(db, env.web, <<id>>, 1, run.failedDomains, run.result, <<>>)
                domain == Host(db.articles[id].url)
                requested == domain \notin run.failedDomains
                got == fetchArticleContent(env.web, db.articles[id].url)
            IN  /\ db' = one.db
                /\ run' = [run EXCEPT !.i = @ + 1, !.result = one.result,
                                      !.failedDomains =
                                          IF requested /\ got.httpErr /\ domain # ""
                                          THEN @ \cup {domain} ELSE @]
                /\ hist' = [hist EXCEPT !.afterCancel =
                               Noted("Fetch", IF requested THEN "HTTP fetch and write"
                                                           ELSE "write")]
    /\ UNCHANGED <<tx, last, call, env>>

(* runTriage up to the loop of TriageArticles; the provider is there *)
BeginTriage ==
    /\ run.pc = "Triage"
    /\ run' = [pc |-> "TriageLoop", steps |-> run.steps, periodID |-> run.periodID,
               articles |-> GetUntriagedArticles(db, run.periodID), i |-> 1,
               result |-> NoResult]
    /\ UNCHANGED <<db, tx, last, call, env, hist>>

(* one turn of the loop of TriageArticles, or its end.  Generate returns the *)
(* context's error once the context is cancelled.                            *)
TriageItem ==
    /\ run.pc = "TriageLoop"
    /\ IF run.i > Len(run.articles)
       THEN /\ run' = [pc |-> "Cluster", periodID |-> run.periodID,
                       steps |-> Append(run.steps, StepResult("Triage", FALSE, run.result))]
            /\ UNCHANGED <<db, hist>>
       ELSE LET id == run.articles[run.i]
                generate == [u \in FeedURLs |-> IF env.cancelled THEN GenerateError
                                                                 ELSE env.triage[u]]
                one == TriageLoop(db, <<id>>, 1, generate, run.result, <<>>)
            IN  /\ db' = one.db
                /\ run' = [run EXCEPT !.i = @ + 1, !.result = one.result]
                /\ hist' = [hist EXCEPT !.afterCancel = Noted("Triage", "Generate call")]
    /\ UNCHANGED <<tx, last, call, env>>

NextCancel ==
    \/ CancelContext
    \/ CancelCollect
    \/ BeginFetch
    \/ FetchItem
    \/ BeginTriage
    \/ TriageItem

SpecCancel == InitCancel /\ [][NextCancel]_vars

(* C19: once the cancellation signal is raised the running stage begins no   *)
(* further per-item work (HTTP fetch, Generator call) and makes no further   *)
(* item write.                                                               *)
C19_NoWorkAfterCancel ==
    hist.afterCancel = <<>>

-----------------------------------------------------------------------------
(* Specification SpecLabel: generateLabel is called, more than once, on the  *)
(* articles of one cluster, given by their titles in the order of the group. *)

MaxLabelCalls == 2

LabelTitles ==
    {<<"Briefly">>, <<"Briefly", "Noted:">>, <<"Noted:", "Briefly">>, <<"The", "AI">>,
     <<"The", "Noted:">>}

InitLabel ==
    /\ db = EmptyDB
    /\ tx = Idle
    /\ last = NoCall
    /\ call = NoCall
    /\ env \in [titles : UNION {[1..n -> LabelTitles] : n \in 2..3}]
    /\ run = NoRun
    /\ hist = [runs |-> <<>>]

CallGenerateLabel ==
    /\ Len(hist.runs) < MaxLabelCalls
    /\ \E label \in generateLabel(env.titles) :
           /\ call' = [op |-> "generateLabel", titles |-> env.titles, label |-> label]
           /\ hist' = [hist EXCEPT !.runs = Append(@, label)]
    /\ UNCHANGED <<db, tx, last, env, run>>

NextLabel == CallGenerateLabel

SpecLabel == InitLabel /\ [][NextLabel]_vars

(* the three most frequent counted words of the titles, a tie going to the   *)
(* word seen first, title-cased; the first title when no word is counted     *)
FirstSeenLabel(titles) ==
    LET all == Concat([i \in 1..Len(titles) |-> CountedWords(titles[i])])
        words == {all[i] : i \in 1..Len(all)}
        First(w) == CHOOSE i \in 1..Len(all) : all[i] = w /\ \A j \in 1..(i - 1) : all[j] # w
        RECURSIVE Top(_, _)
        Top(left, passes) ==
            IF passes = 0 \/ left = {} THEN <<>>
            ELSE LET w == CHOOSE x \in left : \A y \in left :
                              \/ Occurrences(all, y) < Occurrences(all, x)
                              \/ (Occurrences(all, y) = Occurrences(all, x)
                                  /\ First(x) <= First(y))
                 IN  <<TitleCase(w)>> \o Top(left \ {w}, passes - 1)
    IN  IF words = {} THEN titles[1] ELSE Top(words, 3)

(* C23: generateLabel returns the three most frequent surviving title words, *)
(* ties broken by first-seen order, so every call on the same articles       *)
(* returns the same label.                                                   *)
C23_LabelTiesByFirstSeen ==
    \A k \in 1..Len(hist.runs) :
        /\ hist.runs[k] = FirstSeenLabel(env.titles)
        /\ hist.runs[k] = hist.runs[1]

-----------------------------------------------------------------------------
(* Specification SpecFetch: articles of two periods are collected, with or   *)
(* without content from the feed, and FetchMissingContent runs for one of    *)
(* the periods against a web that may answer each request in any way.        *)

MaxFetchRuns == 2

FetchPeriod == <<Today>>
EarlierPeriod == <<<<2026, 2, 5>>>>

FetchURLs == {"https://a", "https://b/1", "https://B/2", "%zz"}

(* What the feeds hold: https://a with or without content, and https://B/2  *)
(* published in this period or the one before                                *)
FetchEntries ==
    {[url |-> u, content |-> "", period_id |-> FetchPeriod] : u \in FetchURLs}
    \cup {[url |-> "https://a", content |-> "feed text", period_id |-> FetchPeriod],
          [url |-> "https://B/2", content |-> "", period_id |-> EarlierPeriod]}

(* 99 bytes inside 4 bytes of white space, 100 bytes, 101 bytes, and 60      *)
(* characters of two bytes each                                              *)
FetchTexts ==
    {Text("text of 99", 99, 99, 4), Text("text of 100", 100, 100, 0),
     Text("text of 101", 101, 101, 0), Text("text of 60 characters", 60, 120, 0)}

FetchResponses ==
    {Response("ok", 200, t) : t \in FetchTexts}
    \cup {Response("ok", 400, NoText), Unreachable, Response("unreadable body", 200, NoText)}

(* The URLs FetchMissingContent of the period can ask the web for *)
NeedingURLs(d, periodID) ==
    LET ids == GetArticlesNeedingFetch(d, periodID)
    IN  {d.articles[ids[i]].url : i \in 1..Len(ids)}

InitFetch ==
    /\ db = EmptyDB
    /\ tx = Idle
    /\ last = NoCall
    /\ call = NoCall
    /\ env = NoEnv
    /\ run = NoRun
    /\ hist = [runs |-> <<>>]

(* Collect stores one entry of a feed, which came with or without content *)
FetchCollect(url, content, periodID) ==
    /\ ~HasURL(db.articles, url)
    /\ db' = Collect(db, <<[url |-> url, title |-> <<"The", "AI">>, content |-> content]>>,
                     periodID).db
    /\ last' = [op |-> "Collect"]
    /\ UNCHANGED <<tx, call, pipeVars>>

RunFetch(web) ==
    LET out == FetchMissingContent(db, web, FetchPeriod)
    IN  /\ Len(hist.runs) < MaxFetchRuns
        /\ db' = out.db
        /\ last' = [op |-> "FetchMissingContent", web |-> web,
                    selected |-> GetArticlesNeedingFetch(db, FetchPeriod),
                    pre |-> db.articles, post |-> out.db.articles,
                    requests |-> out.requests, result |-> out.result]
        /\ hist' = [hist EXCEPT !.runs = Append(@, Len(out.requests))]
        /\ UNCHANGED <<tx, call, env, run>>

NextFetch ==
    \/ \E e \in FetchEntries : FetchCollect(e.url, e.content, e.period_id)
    \/ \E web \in [NeedingURLs(db, FetchPeriod) -> FetchResponses] : RunFetch(web)

SpecFetch == InitFetch /\ [][NextFetch]_vars

(* Whether the k-th selected article of the last run met a host already in   *)
(* the failed-domain set as the claims describe it: an earlier article of    *)
(* the same host, itself requested, got a response with status >= 400.       *)
RECURSIVE Skipped(_)
Skipped(k) ==
    LET url(i) == last.pre[last.selected[i]].url
        Refused(i) == /\ ParsesAsURL(url(i))
                      /\ last.web[url(i)].transport # "connection error"
                      /\ last.web[url(i)].status >= 400
    IN  \E j \in 1..(k - 1) :
            /\ Host(url(j)) = Host(url(k))
            /\ Host(url(j)) # ""
            /\ Refused(j)
            /\ ~Skipped(j)

(* C25: in one FetchMissingContent run a request is issued for a selected    *)
(* article exactly when no earlier requested article of its host got a       *)
(* status >= 400, a transport failure of an earlier article notwithstanding; *)
(* an article skipped for its host is marked attempted and keeps its empty   *)
(* content.                                                                  *)
C25_BreakerTripsOnHTTPErrorOnly ==
    last.op = "FetchMissingContent" =>
        LET n == Len(last.selected)
            positions == [k \in 1..n |-> k]
            asked == SelectSeq(positions,
                               LAMBDA k : ~Skipped(k)
                                          /\ ParsesAsURL(last.pre[last.selected[k]].url))
        IN  /\ last.requests = [i \in 1..Len(asked) |-> last.selected[asked[i]]]
            /\ \A k \in 1..n :
                   Skipped(k) =>
                       /\ last.post[last.selected[k]].content_fetched
                       /\ last.post[last.selected[k]].content
                              = last.pre[last.selected[k]].content

(* A run over two articles of host b: the first met a connection error and   *)
(* the second was still requested and got 400.                               *)
C25_Witness ==
    /\ last.op = "FetchMissingContent"
    /\ \E k \in 1..(Len(last.selected) - 1) :
           /\ Host(last.pre[last.selected[k]].url) = "b"
           /\ Host(last.pre[last.selected[k + 1]].url) = "b"
           /\ last.web[last.pre[last.selected[k]].url] = Unreachable
           /\ last.web[last.pre[last.selected[k + 1]].url].status = 400
           /\ last.selected[k + 1] \in {last.requests[i] : i \in DOMAIN last.requests}

(* A run over two articles of host b, https://b/1 and https://B/2: the first *)
(* got 400 and no request went out for the second, whose page was there.     *)
C25_WitnessSkipped ==
    /\ last.op = "FetchMissingContent"
    /\ \E k \in 2..Len(last.selected) :
           /\ Skipped(k)
           /\ last.web[last.pre[last.selected[k]].url].status = 200
           /\ last.post[last.selected[k]].content_fetched
           /\ last.result.Failed >= 2

(* C26: after a fetch with status < 400 the extracted text is the article's  *)
(* content exactly when it has 100 or more characters without the white      *)
(* space around it; a shorter text leaves the content unwritten and          *)
(* content_fetched true.                                                     *)
C26_StoredFromHundredCharacters ==
    last.op = "FetchMissingContent" =>
        \A i \in DOMAIN last.requests :
            LET id == last.requests[i]
                resp == last.web[last.pre[id].url]
            IN  (resp.transport = "ok" /\ resp.status < 400) =>
                    /\ last.post[id].content_fetched
                    /\ last.post[id].content =
                           IF resp.text.chars >= 100 THEN resp.text.name
                                                     ELSE last.pre[id].content

(* C27: when FetchMissingContent returns, every article it selected has      *)
(* content_fetched true, so a run that follows at once selects nothing and   *)
(* sends no request; articles that had content, and articles of other        *)
(* periods, are as they were.                                                *)
C27_EverySelectedArticleIsMarked ==
    last.op = "FetchMissingContent" =>
        LET selected == {last.selected[k] : k \in DOMAIN last.selected}
        IN  /\ selected = {i \in DOMAIN last.pre :
                              /\ last.pre[i].content \in {Null, ""}
                              /\ ~last.pre[i].content_fetched
                              /\ last.pre[i].period_id = FetchPeriod}
            /\ \A i \in selected : last.post[i].content_fetched
            /\ \A i \in DOMAIN last.pre \ selected : last.post[i] = last.pre[i]
            /\ DOMAIN last.post = DOMAIN last.pre
            /\ last.result.Fetched + last.result.Failed = Len(last.selected)
            /\ db.articles = last.post
            /\ GetArticlesNeedingFetch(db, FetchPeriod) = <<>>
            /\ \A web \in [{} -> FetchResponses] :
                   LET again == FetchMissingContent(db, web, FetchPeriod)
                   IN  again.requests = <<>> /\ again.db = db

(* A run over four selected articles that ended in a stored page, a text too *)
(* short, a transport failure and a URL no request can be made for, beside   *)
(* an article of the period before, which kept content_fetched false.        *)
C27_Witness ==
    /\ last.op = "FetchMissingContent"
    /\ Len(last.selected) >= 3
    /\ last.result.Fetched = 1
    /\ \E k \in DOMAIN last.selected :
           last.web[last.pre[last.selected[k]].url] = Unreachable
    /\ \E k \in DOMAIN last.selected :
           last.web[last.pre[last.selected[k]].url].text.bytes = 99
    /\ \E k \in DOMAIN last.selected : ~ParsesAsURL(last.pre[last.selected[k]].url)
    /\ \E i \in DOMAIN last.post :
           last.post[i].period_id = EarlierPeriod /\ ~last.post[i].content_fetched

(* The run after a run, with nothing collected in between: nothing selected, *)
(* no request.                                                               *)
C27_WitnessSecondRun ==
    /\ last.op = "FetchMissingContent"
    /\ hist.runs = <<3, 0>>
    /\ last.selected = <<>>
    /\ last.requests = <<>>

-----------------------------------------------------------------------------
(* Specification SpecCollect: Collect runs, for one period and then another, *)
(* over feeds and NewsAPI answers that can hold any mix of the same URLs and *)
(* can each fail.                                                            *)

MaxCollectRuns == 2

FeedEntry(url) == [url |-> url, title |-> <<"The", "AI">>, content |-> ""]
NewsArticle(url) == [url |-> url, title |-> <<"Briefly">>, content |-> "news text"]

FailedFeed == [err |-> TRUE, entries |-> <<>>]
FailedSearch == [ok |-> FALSE, articles |-> <<>>]

(* no feed configured, or two feeds: the first failing or with up to two     *)
(* entries, the second with https://b, with nothing, or failing              *)
FeedParsers ==
    {[configured |-> FALSE, feeds |-> <<>>]}
    \cup {[configured |-> TRUE, feeds |-> <<first, second>>] :
              first \in {FailedFeed}
                        \cup {[err |-> FALSE, entries |-> e] :
                                  e \in {<<>>, <<FeedEntry("https://a")>>,
                                         <<FeedEntry("https://a"), FeedEntry("https://b")>>,
                                         <<FeedEntry("https://b"), FeedEntry("https://b")>>}},
              second \in {FailedFeed, [err |-> FALSE, entries |-> <<>>],
                          [err |-> FALSE, entries |-> <<FeedEntry("https://b")>>]}}

(* no client, a client without active priorities, or one with one priority *)
NewsClients ==
    LET base == {FailedSearch}
                \cup {[ok |-> TRUE, articles |-> a] :
                          a \in {<<>>, <<NewsArticle("https://b")>>,
                                 <<NewsArticle("https://b"), NewsArticle("https://c")>>,
                                 <<NewsArticle("https://c"), NewsArticle("https://c")>>}}
        priority == {FailedSearch,
                     [ok |-> TRUE, articles |-> <<NewsArticle("https://c")>>],
                     [ok |-> TRUE,
                      articles |-> <<NewsArticle("https://b"), NewsArticle("https://c")>>]}
    IN  {[configured |-> FALSE, answers |-> <<FailedSearch>>]}
        \cup {[configured |-> TRUE, answers |-> <<b>>] : b \in base}
        \cup {[configured |-> TRUE, answers |-> <<b, q>>] : b \in base, q \in priority}

(* the first run is for the earlier period, the next for it or for today's *)
CollectPeriods == IF hist.runs = <<>> THEN {EarlierPeriod} ELSE {EarlierPeriod, FetchPeriod}

InitCollect ==
    /\ db = EmptyDB
    /\ tx = Idle
    /\ last = NoCall
    /\ call = NoCall
    /\ env = NoEnv
    /\ run = NoRun
    /\ hist = [runs |-> <<>>]

(* Pipeline.runCollect *)
CallCollect(feedParser, newsClient, periodID) ==
    LET out == CollectFromSources(db, feedParser, newsClient, periodID)
        step == StepResult("Collect", FALSE, out.result)
    IN  /\ Len(hist.runs) < MaxCollectRuns
        /\ db' = out.db
        /\ last' = [op |-> "Collect", period_id |-> periodID, step |-> step,
                    feedParser |-> feedParser, newsClient |-> newsClient,
                    pre |-> db.articles, post |-> out.db.articles, result |-> out.result]
        /\ hist' = [hist EXCEPT !.runs = Append(@, periodID)]
        /\ UNCHANGED <<tx, call, env, run>>

NextCollect ==
    \E feedParser \in FeedParsers, newsClient \in NewsClients,
       periodID \in CollectPeriods :
        CallCollect(feedParser, newsClient, periodID)

SpecCollect == InitCollect /\ [][NextCollect]_vars

(* C29: after Collect(P) the store has one row per URL at most; the rows it  *)
(* had are unchanged; the rows added carry period_id P and there is one for  *)
(* every URL found that had none; NewArticles is their number, TotalFound    *)
(* the number of candidates the sources returned, Duplicates the rest; and   *)
(* the Collect step reports no error, whichever sources failed.              *)
C29_CollectCountsAndDeduplicates ==
    last.op = "Collect" =>
        LET pre == last.pre
            post == last.post
            fromFeeds == IF last.feedParser.configured
                         THEN Concat([i \in 1..Len(last.feedParser.feeds) |->
                                         IF last.feedParser.feeds[i].err THEN <<>>
                                         ELSE last.feedParser.feeds[i].entries])
                         ELSE <<>>
            answered == Concat([i \in 1..Len(last.newsClient.answers) |->
                                   IF last.newsClient.answers[i].ok
                                   THEN last.newsClient.answers[i].articles ELSE <<>>])
            urls(items) == {items[i].url : i \in 1..Len(items)}
            found == urls(fromFeeds)
                     \cup (IF last.newsClient.configured THEN urls(answered) ELSE {})
            added == (Len(pre) + 1)..Len(post)
        IN  /\ \A i, j \in 1..Len(post) : post[i].url = post[j].url => i = j
            /\ Len(pre) <= Len(post)
            /\ \A i \in 1..Len(pre) : post[i] = pre[i]
            /\ \A i \in added : post[i].period_id = last.period_id /\ post[i].url \in found
            /\ found \subseteq urls(post)
            /\ last.result.NewArticles = Cardinality(added)
            /\ last.result.NewArticles + last.result.Duplicates = last.result.TotalFound
            /\ last.result.TotalFound >= Cardinality(found)
            /\ (found # {} /\ added = {}) => last.result.Duplicates > 0
            /\ ~last.step.Err

(* A second Collect, for another period than the first: both feeds and the   *)
(* search returned https://b, which the first run had stored; the first      *)
(* feed's https://a and the search's https://c were new; the search for the  *)
(* priority failed.                                                          *)
C29_Witness ==
    /\ last.op = "Collect"
    /\ Len(hist.runs) = 2
    /\ hist.runs[1] # hist.runs[2]
    /\ Len(last.pre) = 1
    /\ last.pre[1].url = "https://b"
    /\ last.pre[1].period_id # last.period_id
    /\ last.result.NewArticles = 2
    /\ last.result.Duplicates >= 3
    /\ last.feedParser.configured
    /\ last.newsClient.configured
    /\ Len(last.newsClient.answers) = 2
    /\ ~last.newsClient.answers[2].ok

====
